---- MODULE Spec2Model ----
(***************************************************************************)
(* A model of the Chord DHT node of rust-chord: the identifier ring, the   *)
(* routing table, the peer-to-peer handlers (storage, peer find,           *)
(* predecessor notify), the api handler (DHT GET / DHT PUT), bootstrap and *)
(* the stabilization tick, for a small network of nodes.                   *)
(*                                                                         *)
(* Every outbound procedure is a sequence of steps of the calling thread;  *)
(* a step that talks to a peer runs the peer's handler critical section    *)
(* and hands the reply to the caller, which blocks on the connection       *)
(* meanwhile.  The storage handlers take two critical sections (routing    *)
(* lock, then storage lock) and are two steps.                             *)
(***************************************************************************)
EXTENDS Integers, Sequences, FiniteSets, TLC

\* ------------------------------------------------------------------ bounds

\* Width of an identifier in bits (256 in the program, scaled down).
IdBits == 3

\* config.fingers, the size F of the finger table (default 128, scaled down).
Fingers == 2

\* u8::MAX, the bound of the replication index (255, scaled down).
U8MAX == 3

\* How many nodes may join the ring of the first node.
MaxJoins == 2

\* How many api requests are started in a run.
MaxRequests == 2

\* How many stabilization ticks are started in a run.
MaxTicks == 2

\* How many client threads (api, stabilization, bootstrap) run at once.
MaxActive == 2

\* How many nodes may fail.
MaxCrashes == 1

\* How many worker threads the p2p server of a node has.
Workers == 2

\* -------------------------------------------------------------- identifiers

RingSize == 2 ^ IdBits

Identifier == 0 .. (RingSize - 1)

\* Identifier::generate: the SHA-256 digest of the bytes as a number on the
\* ring, modelled by a rolling hash over the bytes.
RECURSIVE generate(_)
generate(bytes) ==
    IF bytes = <<>> THEN 0
    ELSE (generate(SubSeq(bytes, 1, Len(bytes) - 1)) * 5
            + bytes[Len(bytes)] * 3 + 1) % RingSize

\* Identifier::with_bit
with_bit(index) == 2 ^ index

\* impl Add / impl Sub for Identifier: wrapping on the ring.
add(a, b) == (a + b) % RingSize
sub(a, b) == (a - b + RingSize) % RingSize

\* An interval that includes its left end and not its right end.
is_between_left(self, first, second) == sub(self, first) < sub(second, first)

\* An interval that includes neither end.
is_between_open(self, first, second) ==
    sub(second, self) < sub(second, first) /\ self # second

\* Identifier::is_between: self in (first, second] on the ring.
is_between(self, first, second) == sub(second, self) < sub(second, first)

\* Identifier::leading_zeros of an IdBits wide number (IdBits for zero).
leading_zeros(x) == Cardinality({i \in 0 .. (IdBits - 1) : 2 ^ i > x})

\* ---------------------------------------------------------------- addresses

AddrA == [ip |-> <<127, 0, 0, 1>>, port |-> 9000]
AddrB == [ip |-> <<127, 0, 0, 1>>, port |-> 9100]
AddrC == [ip |-> <<127, 0, 0, 5>>, port |-> 9000]
AddrD == [ip |-> <<127, 0, 0, 2>>, port |-> 9000]

Node == {AddrA, AddrB, AddrC, AddrD}

\* impl Identify for SocketAddrV4: the hash of the ip octets, not of the port.
addr_identifier(addr) == generate(addr.ip)

\* ---------------------------------------------------------------------- keys

RawKey == {<<34>>}
Value == {<<8>>, <<9>>}
Ttl == {10}
Replication == 0 .. U8MAX
ReplicationIndex == 0 .. U8MAX

Key == [raw_key : RawKey, replication_index : ReplicationIndex]

\* impl Identify for Key: the hash of the raw key followed by the index.
key_identifier(key) == generate(key.raw_key \o <<key.replication_index>>)

\* ------------------------------------------------------------------- routing

\* A constructor that takes predecessor and successor the other way round.
Routing_new_swapped(current, predecessor, successor, finger_table) ==
    [current |-> current, predecessor |-> successor, successor |-> predecessor,
     finger_table |-> finger_table]

\* Routing::new
Routing_new(current, predecessor, successor, finger_table) ==
    [current |-> current, predecessor |-> predecessor,
     successor |-> successor, finger_table |-> finger_table]

\* Routing::set_predecessor / set_successor / set_finger
set_predecessor(r, new_pred) == [r EXCEPT !.predecessor = new_pred]
set_successor(r, new_succ) == [r EXCEPT !.successor = new_succ]
set_finger(r, index, finger) == [r EXCEPT !.finger_table[index + 1] = finger]

\* Routing::fingers
fingers(r) == Len(r.finger_table)

\* Routing::responsible_for
responsible_for(r, identifier) ==
    is_between(identifier, addr_identifier(r.predecessor), addr_identifier(r.current))

\* Routing::successor_responsible_for
successor_responsible_for(r, identifier) ==
    is_between(identifier, addr_identifier(r.current), addr_identifier(r.successor))

\* A closest_peer that does not look into the finger table.
closest_peer_no_fingers(r, identifier) ==
    IF is_between(identifier, addr_identifier(r.predecessor), addr_identifier(r.current))
    THEN r.current ELSE r.successor

\* Routing::closest_peer
closest_peer(r, identifier) ==
    IF responsible_for(r, identifier) THEN r.current
    ELSE IF successor_responsible_for(r, identifier) THEN r.successor
    ELSE LET diff == sub(identifier, addr_identifier(r.current))
             zeros == leading_zeros(diff)
         IN  IF zeros < Len(r.finger_table)
             THEN r.finger_table[zeros + 1]
             ELSE r.successor

\* run (lib.rs), without bootstrap: a new ring.
fresh_routing(addr) ==
    Routing_new(addr, addr, addr, [i \in 1 .. Fingers |-> addr])

\* --------------------------------------------------------------------- state

VARIABLES
    status,     \* per address: "absent" (no host), "off", "boot" (joining),
                \* "up" (serving), "crashed"
    routing,    \* per node: the Routing behind Arc<Mutex<..>>
    storage,    \* per node: P2PHandler.storage, a map from Key to value
    api,        \* per node: the api worker (pool of one) and its request
    stab,       \* per node: the stabilization thread
    boot,       \* per node: Bootstrap::bootstrap before the node serves
    hist,       \* the api handlers that have returned, in the order they did
    requests,   \* api requests started so far
    ticks,      \* stabilization ticks started so far
    crashes,    \* nodes failed so far
    thread,     \* per thread of one node: its handler's lock and I/O steps, its position
    mutex,      \* the holder of the routing mutex and of the storage mutex of the node
    codec,      \* a message, the frame written for it and the message parsed from it
    call        \* calls of a function of the routing module: arguments and results

vars == <<status, routing, storage, api, stab, boot, hist, requests, ticks, crashes,
          thread, mutex, codec, call>>

\* The state of the ring: everything but the threads' locks and the codec.
ringvars == <<status, routing, storage, api, stab, boot, hist, requests, ticks, crashes>>

NoValue == <<>>
EmptyStorage == [key \in {} |-> NoValue]

ApiIdle ==
    [pc |-> "idle", op |-> "none", key |-> <<>>, value |-> NoValue, ttl |-> 0,
     replication |-> 0, i |-> 0, peer |-> AddrA, res |-> "none",
     resv |-> NoValue, sent |-> <<>>, p2p |-> "none", started |-> 0]

StabIdle ==
    [pc |-> "idle", current |-> AddrA, successor |-> AddrA, cand |-> AddrA,
     i |-> 0, peer |-> AddrA, res |-> "none"]

BootOff == [pc |-> "off", boot_addr |-> AddrA, peer |-> AddrA, successor |-> AddrA]

\* The threads of one node: the workers of the p2p server, the worker of the
\* api server and the stabilization thread.
Thread == {"p2p" \o ToString(w) : w \in 1 .. Workers} \cup {"api", "stabilization"}

\* A thread between two handlers; predecessor_addr and old_predecessor_addr
\* are the locals of P2PHandler::notify_predecessor, storage_put and
\* inserted those of P2PHandler::handle_storage_put.
ThreadIdle ==
    [steps |-> <<>>, pc |-> 1, predecessor_addr |-> AddrA, old_predecessor_addr |-> AddrA,
     storage_put |-> <<>>, inserted |-> FALSE]

MutexFree == [routing |-> "free", storage |-> "free"]

CodecIdle == [pc |-> "idle", msg |-> <<>>, buffer |-> <<>>, size |-> 0, parsed |-> <<>>]

NoCall == [fn |-> "none", pending |-> <<>>, done |-> <<>>]

\* The hosts of a run: two nodes on one host, three hosts, or two nodes on
\* one host and a third on another.
Deployment == {{AddrA, AddrB}, {AddrA, AddrC, AddrD}, {AddrA, AddrB, AddrC}}

\* run (lib.rs) on the given hosts: the first node starts a new ring; the
\* others are not started.
InitHosts(hosts) ==
    /\ status = [n \in Node |-> IF n = AddrA THEN "up"
                                ELSE IF n \in hosts THEN "off" ELSE "absent"]
    /\ routing = [n \in Node |-> fresh_routing(n)]
    /\ storage = [n \in Node |-> EmptyStorage]
    /\ api = [n \in Node |-> ApiIdle]
    /\ stab = [n \in Node |-> StabIdle]
    /\ boot = [n \in Node |-> BootOff]
    /\ hist = <<>>
    /\ requests = 0
    /\ ticks = 0
    /\ crashes = 0

InitRing == \E hosts \in Deployment : InitHosts(hosts)

\* No thread is in a handler, both mutexes are free, no message is in the codec.
Init ==
    /\ InitRing
    /\ thread = [t \in Thread |-> ThreadIdle]
    /\ mutex = MutexFree
    /\ codec = CodecIdle
    /\ call = NoCall

\* The client threads that are in the middle of a procedure.
Active ==
    Cardinality({n \in Node : api[n].pc # "idle"})
  + Cardinality({n \in Node : stab[n].pc # "idle"})
  + Cardinality({n \in Node : boot[n].pc \in {"find", "notify"}})

Joined == Cardinality({n \in Node : boot[n].pc # "off"})

\* Connection::open succeeds only towards a listening node.
Reachable(p) == status[p] = "up"

\* ---------------------------------------------------------------- p2p handler

\* A lookup that ignores the replication index: the value of any entry of
\* the raw key.
get_from_storage_any_index(store, key) ==
    LET same == {k \in DOMAIN store : k.raw_key = key.raw_key}
    IN  IF same = {} THEN <<>> ELSE <<store[CHOOSE k \in same : TRUE]>>

\* An insertion that overwrites the entry of the key.
put_to_storage_overwrite(store, key, value) ==
    [storage |-> (key :> value) @@ store, inserted |-> TRUE]

\* P2PHandler::get_from_storage: Option<Vec<u8>> as a sequence of length <= 1.
get_from_storage(store, key) ==
    IF key \in DOMAIN store THEN <<store[key]>> ELSE <<>>

\* P2PHandler::put_to_storage: the new map and whether the value was inserted.
put_to_storage(store, key, value) ==
    IF key \in DOMAIN store
    THEN [storage |-> store, inserted |-> FALSE]
    ELSE [storage |-> (key :> value) @@ store, inserted |-> TRUE]

\* A notify that replies the predecessor it has just set.
notify_predecessor_new_reply(r, predecessor_addr) ==
    LET r1 == IF responsible_for(r, addr_identifier(predecessor_addr))
              THEN set_predecessor(r, predecessor_addr) ELSE r
        r2 == IF r1.predecessor = r1.current
              THEN set_predecessor(r1, predecessor_addr) ELSE r1
        r3 == IF r2.successor = r2.current
              THEN set_successor(r2, predecessor_addr) ELSE r2
    IN  [routing |-> r3, reply |-> r3.predecessor]

\* A notify that does not test the arc of the node.
notify_predecessor_no_arc(r, predecessor_addr) ==
    LET r2 == IF r.predecessor = r.current
              THEN set_predecessor(r, predecessor_addr) ELSE r
        r3 == IF r2.successor = r2.current
              THEN set_successor(r2, predecessor_addr) ELSE r2
    IN  [routing |-> r3, reply |-> r.predecessor]

\* A notify that leaves the successor of a node that is alone.
notify_predecessor_keep_successor(r, predecessor_addr) ==
    LET r1 == IF responsible_for(r, addr_identifier(predecessor_addr))
              THEN set_predecessor(r, predecessor_addr) ELSE r
        r2 == IF r1.predecessor = r1.current
              THEN set_predecessor(r1, predecessor_addr) ELSE r1
    IN  [routing |-> r2, reply |-> r.predecessor]

\* A PEER FIND handler that always answers with the successor.
handle_peer_find_successor(p, identifier) == routing[p].successor

\* P2PHandler::notify_predecessor: the new routing and the address replied.
notify_predecessor(r, predecessor_addr) ==
    LET old_predecessor_addr == r.predecessor
        r1 == IF responsible_for(r, addr_identifier(predecessor_addr))
              THEN set_predecessor(r, predecessor_addr) ELSE r
        r2 == IF r1.predecessor = r1.current
              THEN set_predecessor(r1, predecessor_addr) ELSE r1
        r3 == IF r2.successor = r2.current
              THEN set_successor(r2, predecessor_addr) ELSE r2
    IN  [routing |-> r3, reply |-> old_predecessor_addr]

\* P2PHandler::handle_peer_find: the address in the PEER FOUND reply.
handle_peer_find(p, identifier) == closest_peer(routing[p], identifier)

\* ---------------------------------------------------------------- api handler

\* The key of the storage request of the current loop iteration.
ApiKey(n) == [raw_key |-> api[n].key, replication_index |-> api[n].i]

\* The next state of the api worker of n: a handler that has returned is
\* entered in the log of finished requests and the worker takes the next
\* connection.
ApiStep(n, rec) ==
    IF rec.pc = "idle"
    THEN /\ api' = [api EXCEPT ![n] = ApiIdle]
         /\ hist' = Append(hist, [node |-> n, req |-> rec])
    ELSE /\ api' = [api EXCEPT ![n] = rec]
         /\ UNCHANGED hist

\* A handler that answers the api client with DhtFailure when it fails.
ApiError_failure(n) == ApiStep(n, [api[n] EXCEPT !.pc = "idle", !.res = "DhtFailure"])

\* The handler returns an error: nothing is sent to the api client.
ApiError(n) == ApiStep(n, [api[n] EXCEPT !.pc = "idle", !.res = "error"])

\* handle_dht_get, top of `for i in 0..u8::MAX` and the code after the loop.
GetLoop(rec, i) ==
    IF i < U8MAX
    THEN [rec EXCEPT !.pc = "closest", !.i = i]
    ELSE [rec EXCEPT !.pc = "idle", !.res = "DhtFailure"]

\* handle_dht_put, top of `for i in 1..target_replication` and the code after it.
PutLoop(rec, i) ==
    IF i < rec.replication
    THEN [rec EXCEPT !.pc = "closest", !.i = i]
    ELSE [rec EXCEPT !.pc = "idle", !.res = "ok"]

\* ApiHandler::handle_connection receives DHT GET: handle_dht_get starts.
handle_dht_get(n, k) ==
    /\ status[n] = "up" /\ api[n].pc = "idle"
    /\ requests < MaxRequests /\ Active < MaxActive
    /\ ApiStep(n, GetLoop([ApiIdle EXCEPT !.op = "get", !.key = k,
                                          !.started = Len(hist)], 0))
    /\ requests' = requests + 1
    /\ UNCHANGED <<status, routing, storage, stab, boot, ticks, crashes,
                 thread, mutex, codec, call>>

\* ApiHandler::handle_connection receives DHT PUT: handle_dht_put starts.
handle_dht_put(n, ttl, replication, k, v) ==
    /\ status[n] = "up" /\ api[n].pc = "idle"
    /\ requests < MaxRequests /\ Active < MaxActive
    /\ ApiStep(n, PutLoop([ApiIdle EXCEPT !.op = "put", !.key = k, !.value = v,
                                          !.ttl = ttl, !.replication = replication,
                                          !.started = Len(hist)], 1))
    /\ requests' = requests + 1
    /\ UNCHANGED <<status, routing, storage, stab, boot, ticks, crashes,
                 thread, mutex, codec, call>>

\* A get_closest_peer that stores the peer it found as the first finger.
get_closest_peer_set_finger(n) ==
    /\ status[n] = "up" /\ api[n].pc = "closest"
    /\ LET peer == closest_peer(routing[n], key_identifier(ApiKey(n)))
       IN  /\ api' = [api EXCEPT ![n].pc = "find", ![n].peer = peer]
           /\ routing' = [routing EXCEPT ![n] = set_finger(@, 0, peer)]
    /\ UNCHANGED <<status, storage, stab, boot, hist, requests, ticks, crashes,
                 thread, mutex, codec, call>>

\* ApiHandler::get_closest_peer for the identifier of the current key.
get_closest_peer(n) ==
    /\ status[n] = "up" /\ api[n].pc = "closest"
    /\ api' = [api EXCEPT ![n].pc = "find",
                          ![n].peer = closest_peer(routing[n], key_identifier(ApiKey(n)))]
    /\ UNCHANGED <<status, routing, storage, stab, boot, hist, requests, ticks, crashes,
                 thread, mutex, codec, call>>

\* The storage request get_value / put_value sends for the current iteration.
StorageRequest(rec, peer_addr) ==
    [type |-> IF rec.op = "get" THEN "StorageGet" ELSE "StoragePut",
     ttl |-> rec.ttl, replication_index |-> rec.i, raw_key |-> rec.key,
     value |-> rec.value, to |-> peer_addr]

\* One round of Procedures::find_peer in the api handler; when the peer
\* answers with its own address the storage request is sent to it.
api_find_peer(n) ==
    /\ status[n] = "up" /\ api[n].pc = "find"
    /\ LET peer_addr == api[n].peer
           reply_addr == handle_peer_find(peer_addr, key_identifier(ApiKey(n)))
       IN  IF ~Reachable(peer_addr) THEN ApiError(n)
           ELSE IF reply_addr = peer_addr
           THEN ApiStep(n, [api[n] EXCEPT !.pc = "sent",
                               !.sent = Append(@, StorageRequest(api[n], peer_addr))])
           ELSE ApiStep(n, [api[n] EXCEPT !.peer = reply_addr])
    /\ UNCHANGED <<status, routing, storage, stab, boot, requests, ticks, crashes,
                 thread, mutex, codec, call>>

\* handle_storage_get / handle_storage_put at the target, step 1: the
\* responsibility check under the routing lock.  A request the target is not
\* responsible for is dropped: the connection closes without a reply and the
\* caller's receive fails.
handle_storage_check(n) ==
    /\ status[n] = "up" /\ api[n].pc = "sent"
    /\ LET t == api[n].peer
       IN  IF ~Reachable(t) THEN ApiError(n)
           ELSE IF responsible_for(routing[t], key_identifier(ApiKey(n)))
           THEN ApiStep(n, [api[n] EXCEPT !.pc = "resp"])
           ELSE ApiStep(n, [api[n] EXCEPT !.pc = "idle", !.res = "error",
                                          !.p2p = "dropped"])
    /\ UNCHANGED <<status, routing, storage, stab, boot, requests, ticks, crashes,
                 thread, mutex, codec, call>>

\* handle_storage_get at the target, step 2: the lookup under the storage
\* lock and the reply; get_value and the rest of the loop body at the caller.
handle_storage_get(n) ==
    /\ status[n] = "up" /\ api[n].pc = "resp" /\ api[n].op = "get"
    /\ LET t == api[n].peer
           value_opt == get_from_storage(storage[t], ApiKey(n))
       IN  IF ~Reachable(t) THEN ApiError(n)
           ELSE IF value_opt # <<>>
           THEN ApiStep(n, [api[n] EXCEPT !.pc = "idle", !.res = "DhtSuccess",
                                          !.resv = value_opt[1],
                                          !.p2p = "StorageGetSuccess"])
           ELSE ApiStep(n, GetLoop([api[n] EXCEPT !.p2p = "StorageFailure"],
                                   api[n].i + 1))
    /\ UNCHANGED <<status, routing, storage, stab, boot, requests, ticks, crashes,
                 thread, mutex, codec, call>>

\* handle_storage_put at the target, step 2: the insert under the storage
\* lock and the reply; put_value and the rest of the loop body at the caller.
handle_storage_put(n) ==
    /\ status[n] = "up" /\ api[n].pc = "resp" /\ api[n].op = "put"
    /\ LET t == api[n].peer
           put == put_to_storage(storage[t], ApiKey(n), api[n].value)
       IN  IF ~Reachable(t) THEN ApiError(n) /\ UNCHANGED storage
           ELSE /\ storage' = [storage EXCEPT ![t] = put.storage]
                /\ ApiStep(n, PutLoop([api[n] EXCEPT !.p2p =
                                         IF put.inserted THEN "StoragePutSuccess"
                                         ELSE "StorageFailure"], api[n].i + 1))
    /\ UNCHANGED <<status, routing, stab, boot, requests, ticks, crashes,
                 thread, mutex, codec, call>>

\* ------------------------------------------------------------------ bootstrap

\* run (lib.rs) with a bootstrap address: Bootstrap::bootstrap starts.
bootstrap(n, boot_addr) ==
    /\ status[n] = "off" /\ boot[n].pc = "off"
    /\ boot_addr # n /\ status[boot_addr] = "up"
    /\ Joined < MaxJoins /\ Active < MaxActive
    /\ status' = [status EXCEPT ![n] = "boot"]
    /\ boot' = [boot EXCEPT ![n] = [pc |-> "find", boot_addr |-> boot_addr,
                                     peer |-> boot_addr, successor |-> boot_addr]]
    /\ UNCHANGED <<routing, storage, api, stab, hist, requests, ticks, crashes,
                 thread, mutex, codec, call>>

\* Bootstrap::bootstrap fails: run returns the error and the process exits.
BootError(n) ==
    /\ status' = [status EXCEPT ![n] = "off"]
    /\ boot' = [boot EXCEPT ![n].pc = "failed"]

\* One round of find_peer(current_id, boot_addr) in Bootstrap::bootstrap.
bootstrap_find_peer(n) ==
    /\ status[n] = "boot" /\ boot[n].pc = "find"
    /\ LET peer_addr == boot[n].peer
           reply_addr == handle_peer_find(peer_addr, addr_identifier(n))
       IN  IF ~Reachable(peer_addr) THEN BootError(n)
           ELSE /\ boot' = [boot EXCEPT
                       ![n].pc = IF reply_addr = peer_addr THEN "notify" ELSE "find",
                       ![n].peer = reply_addr,
                       ![n].successor = reply_addr]
                /\ UNCHANGED status
    /\ UNCHANGED <<routing, storage, api, stab, hist, requests, ticks, crashes,
                 thread, mutex, codec, call>>

\* notify_predecessor(current_addr, successor) in Bootstrap::bootstrap with
\* handle_predecessor_notify at the successor, then Routing::new and the
\* start of the servers.
bootstrap_notify(n) ==
    /\ status[n] = "boot" /\ boot[n].pc = "notify"
    /\ LET successor == boot[n].successor
           notified == notify_predecessor(routing[successor], n)
       IN  IF ~Reachable(successor) THEN BootError(n) /\ UNCHANGED routing
           ELSE /\ routing' = [routing EXCEPT
                       ![successor] = notified.routing,
                       ![n] = Routing_new(n, notified.reply, successor,
                                          [i \in 1 .. Fingers |-> n])]
                /\ status' = [status EXCEPT ![n] = "up"]
                /\ boot' = [boot EXCEPT ![n].pc = "done"]
    /\ UNCHANGED <<storage, api, stab, hist, requests, ticks, crashes,
                 thread, mutex, codec, call>>

\* -------------------------------------------------------------- stabilization

\* Stabilization::stabilize starts; update_successor snapshots current and
\* successor under the lock.
stabilize(n) ==
    /\ status[n] = "up" /\ stab[n].pc = "idle"
    /\ ticks < MaxTicks /\ Active < MaxActive
    /\ stab' = [stab EXCEPT ![n] =
                  [StabIdle EXCEPT !.pc = "notify",
                                   !.current = routing[n].current,
                                   !.successor = routing[n].successor]]
    /\ ticks' = ticks + 1
    /\ UNCHANGED <<status, routing, storage, api, boot, hist, requests, crashes,
                 thread, mutex, codec, call>>

\* run (lib.rs): the stabilization thread calls stabilize in a loop that
\* never ends, with no bound on the number of ticks.
stabilize_loop(n) ==
    /\ status[n] = "up" /\ stab[n].pc = "idle"
    /\ stab' = [stab EXCEPT ![n] =
                  [StabIdle EXCEPT !.pc = "notify",
                                   !.current = routing[n].current,
                                   !.successor = routing[n].successor]]
    /\ UNCHANGED <<status, routing, storage, api, boot, hist, requests, ticks, crashes,
                 thread, mutex, codec, call>>

\* update_successor: notify_predecessor(current, successor) with
\* handle_predecessor_notify at the successor.  An error ends
\* update_successor; stabilize goes on with update_fingers.
update_successor_notify(n) ==
    /\ status[n] = "up" /\ stab[n].pc = "notify"
    /\ LET successor == stab[n].successor
           notified == notify_predecessor(routing[successor], stab[n].current)
       IN  IF ~Reachable(successor)
           THEN /\ stab' = [stab EXCEPT ![n].pc = "fingers", ![n].res = "error"]
                /\ UNCHANGED routing
           ELSE /\ routing' = [routing EXCEPT ![successor] = notified.routing]
                /\ stab' = [stab EXCEPT ![n].pc = "set", ![n].cand = notified.reply]
    /\ UNCHANGED <<status, storage, api, boot, hist, requests, ticks, crashes,
                 thread, mutex, codec, call>>

\* An update_successor that takes every reply as the new successor.
update_successor_set_always(n) ==
    /\ status[n] = "up" /\ stab[n].pc = "set"
    /\ routing' = [routing EXCEPT ![n] = set_successor(@, stab[n].cand)]
    /\ stab' = [stab EXCEPT ![n].pc = "fingers"]
    /\ UNCHANGED <<status, storage, api, boot, hist, requests, ticks, crashes,
                 thread, mutex, codec, call>>

\* update_successor: the is_between test on the reply and set_successor
\* under the lock.
update_successor_set(n) ==
    /\ status[n] = "up" /\ stab[n].pc = "set"
    /\ routing' = [routing EXCEPT ![n] =
          IF is_between(addr_identifier(stab[n].cand),
                        addr_identifier(stab[n].current),
                        addr_identifier(stab[n].successor))
          THEN set_successor(@, stab[n].cand) ELSE @]
    /\ stab' = [stab EXCEPT ![n].pc = "fingers"]
    /\ UNCHANGED <<status, storage, api, boot, hist, requests, ticks, crashes,
                 thread, mutex, codec, call>>

\* The end of update_fingers and of stabilize: update_successor.and(update_fingers).
StabDone(rec, ok) ==
    [rec EXCEPT !.pc = "idle",
                !.res = IF ok /\ rec.res # "error" THEN "ok" ELSE "error"]

\* update_fingers: the snapshot of current, successor and fingers().
update_fingers(n) ==
    /\ status[n] = "up" /\ stab[n].pc = "fingers"
    /\ stab' = [stab EXCEPT ![n] =
          IF fingers(routing[n]) = 0 THEN StabDone(@, TRUE)
          ELSE [@ EXCEPT !.pc = "ffind", !.i = 0,
                         !.current = routing[n].current,
                         !.successor = routing[n].successor,
                         !.peer = routing[n].successor]]
    /\ UNCHANGED <<status, routing, storage, api, boot, hist, requests, ticks, crashes,
                 thread, mutex, codec, call>>

\* A refresh that asks for current.id + 2^i.
finger_identifier_low(current, i) ==
    add(addr_identifier(current), with_bit(i))

\* The identifier finger i is responsible for.
finger_identifier(current, i) ==
    add(addr_identifier(current), with_bit(IdBits - 1 - i))

\* A find_peer that asks again when the peer asked names itself.
update_fingers_find_peer_inverted(n) ==
    /\ status[n] = "up" /\ stab[n].pc = "ffind"
    /\ LET peer_addr == stab[n].peer
           reply_addr == handle_peer_find(peer_addr,
                             finger_identifier(stab[n].current, stab[n].i))
       IN  stab' = [stab EXCEPT ![n] =
             IF ~Reachable(peer_addr) THEN StabDone(@, FALSE)
             ELSE [@ EXCEPT !.pc = IF reply_addr # peer_addr THEN "fset" ELSE "ffind",
                            !.peer = reply_addr]]
    /\ UNCHANGED <<status, routing, storage, api, boot, hist, requests, ticks, crashes,
                 thread, mutex, codec, call>>

\* update_fingers: one round of find_peer(identifier, successor); an error
\* ends update_fingers.
update_fingers_find_peer(n) ==
    /\ status[n] = "up" /\ stab[n].pc = "ffind"
    /\ LET peer_addr == stab[n].peer
           reply_addr == handle_peer_find(peer_addr,
                             finger_identifier(stab[n].current, stab[n].i))
       IN  stab' = [stab EXCEPT ![n] =
             IF ~Reachable(peer_addr) THEN StabDone(@, FALSE)
             ELSE [@ EXCEPT !.pc = IF reply_addr = peer_addr THEN "fset" ELSE "ffind",
                            !.peer = reply_addr]]
    /\ UNCHANGED <<status, routing, storage, api, boot, hist, requests, ticks, crashes,
                 thread, mutex, codec, call>>

\* update_fingers: set_finger(i, peer) under the lock and the next iteration.
update_fingers_set(n) ==
    /\ status[n] = "up" /\ stab[n].pc = "fset"
    /\ routing' = [routing EXCEPT ![n] = set_finger(@, stab[n].i, stab[n].peer)]
    /\ stab' = [stab EXCEPT ![n] =
          IF stab[n].i + 1 < fingers(routing[n])
          THEN [@ EXCEPT !.pc = "ffind", !.i = stab[n].i + 1, !.peer = stab[n].successor]
          ELSE StabDone(@, TRUE)]
    /\ UNCHANGED <<status, storage, api, boot, hist, requests, ticks, crashes,
                 thread, mutex, codec, call>>

\* ------------------------------------------------------------------- failures

\* A node fails between two procedures of its own: it stops listening.
crash(n) ==
    /\ status[n] = "up" /\ crashes < MaxCrashes
    /\ api[n].pc = "idle" /\ stab[n].pc = "idle"
    /\ status' = [status EXCEPT ![n] = "crashed"]
    /\ crashes' = crashes + 1
    /\ UNCHANGED <<routing, storage, api, stab, boot, hist, requests, ticks,
                 thread, mutex, codec, call>>

\* ---------------------------------------------------------- locks and sockets

\* The steps of a handler that take or release a mutex or use a connection,
\* in program order.  A MutexGuard is released where its scope ends.
NetworkIO == {"connect", "send", "receive"}

RECURSIVE Repeat(_, _)
Repeat(steps, k) == IF k = 0 THEN <<>> ELSE steps \o Repeat(steps, k - 1)

\* P2PHandler::responsible_for / closest_peer / notify_predecessor: the
\* routing guard lives in the helper.
routing_locked == <<"lock_routing", "unlock_routing">>

\* P2PHandler::get_from_storage / put_to_storage: the storage guard lives in
\* the helper.
storage_locked == <<"lock_storage", "unlock_storage">>

\* Procedures::find_peer, one round / get_value / put_value /
\* notify_predecessor: Connection::open, send, receive.
request_reply == <<"connect", "send", "receive">>

\* P2PHandler::handle_connection with handle_peer_find.
handle_peer_find_locks == <<"receive">> \o routing_locked \o <<"send">>

\* P2PHandler::handle_connection with handle_predecessor_notify.
handle_predecessor_notify_locks == <<"receive">> \o routing_locked \o <<"send">>

\* P2PHandler::handle_connection with handle_storage_get / handle_storage_put.
handle_storage_locks(responsible) ==
    <<"receive">> \o routing_locked
    \o (IF responsible THEN storage_locked \o <<"send">> ELSE <<>>)

\* ApiHandler::handle_connection with handle_dht_get: per index
\* get_closest_peer, find_peer and get_value, then the reply.
handle_dht_get_locks(indices) ==
    <<"receive">>
    \o Repeat(routing_locked \o request_reply \o request_reply, indices)
    \o <<"send">>

\* ApiHandler::handle_connection with handle_dht_put: per index
\* get_closest_peer, find_peer and put_value.
handle_dht_put_locks(indices) ==
    <<"receive">>
    \o Repeat(routing_locked \o request_reply \o request_reply, indices)

\* Stabilization::update_successor: the snapshot in its block, the notify,
\* and set_successor inside the if.
update_successor_locks(write) ==
    routing_locked \o request_reply
    \o (IF write THEN routing_locked ELSE <<>>)

\* update_fingers with the guard of set_finger declared outside the loop:
\* it ends with the function.
update_fingers_locks_held ==
    routing_locked \o request_reply \o <<"lock_routing">>
    \o Repeat(request_reply, Fingers - 1) \o <<"unlock_routing">>

\* Stabilization::update_fingers: the snapshot in its block, and per finger
\* find_peer and then set_finger under a guard that ends with the loop body.
update_fingers_locks ==
    routing_locked \o Repeat(request_reply \o routing_locked, Fingers)

\* Stabilization::stabilize: both updates and the guard of the debug output.
stabilize_locks(write) ==
    update_successor_locks(write) \o update_fingers_locks \o routing_locked

\* The handlers a thread runs.
Handlers(t) ==
    IF t = "api" THEN {handle_dht_get_locks(1), handle_dht_put_locks(1)}
    ELSE IF t = "stabilization" THEN {stabilize_locks(TRUE), stabilize_locks(FALSE)}
    ELSE {handle_peer_find_locks, handle_predecessor_notify_locks,
          handle_storage_locks(TRUE), handle_storage_locks(FALSE)}

\* The step a thread is at, "idle" between two handlers.
Step(t) ==
    IF thread[t].pc \in DOMAIN thread[t].steps
    THEN thread[t].steps[thread[t].pc] ELSE "idle"

Advance(t) == thread' = [thread EXCEPT ![t].pc = @ + 1]

\* A thread takes its next connection or tick.
handle_connection(t, steps) ==
    /\ Step(t) = "idle" /\ steps \in Handlers(t)
    /\ thread' = [thread EXCEPT ![t].steps = steps, ![t].pc = 1]
    /\ UNCHANGED <<ringvars, mutex, codec, call>>

\* Mutex::lock: the thread waits until the mutex is free.
lock(t) ==
    /\ \/ Step(t) = "lock_routing" /\ mutex.routing = "free"
          /\ mutex' = [mutex EXCEPT !.routing = t]
       \/ Step(t) = "lock_storage" /\ mutex.storage = "free"
          /\ mutex' = [mutex EXCEPT !.storage = t]
    /\ Advance(t)
    /\ UNCHANGED <<ringvars, codec, call>>

\* The MutexGuard is dropped.
unlock(t) ==
    /\ \/ Step(t) = "unlock_routing" /\ mutex.routing = t
          /\ mutex' = [mutex EXCEPT !.routing = "free"]
       \/ Step(t) = "unlock_storage" /\ mutex.storage = t
          /\ mutex' = [mutex EXCEPT !.storage = "free"]
    /\ Advance(t)
    /\ UNCHANGED <<ringvars, codec, call>>

\* Connection::open, send or receive returns.
network_io(t) ==
    /\ Step(t) \in NetworkIO
    /\ Advance(t)
    /\ UNCHANGED <<ringvars, mutex, codec, call>>

\* ------------------------------------------------------------------ dispatch

\* The well-formed messages a client sends to a server of a node: each of
\* the 13 types, a notification from either of two addresses.
Received ==
    [type : {"DhtPut"}, ttl : Ttl, replication : {2}, key : RawKey, value : {<<8>>}]
    \cup [type : {"DhtGet", "DhtFailure"}, key : RawKey]
    \cup [type : {"DhtSuccess"}, key : RawKey, value : {<<8>>}]
    \cup [type : {"StorageGet"}, replication_index : {0}, raw_key : RawKey]
    \cup [type : {"StoragePut"}, ttl : Ttl, replication_index : {0},
          raw_key : RawKey, value : {<<8>>}]
    \cup [type : {"StorageGetSuccess"}, raw_key : RawKey, value : {<<8>>}]
    \cup [type : {"StoragePutSuccess", "StorageFailure"}, raw_key : RawKey]
    \cup [type : {"PeerFind"}, identifier : {0}]
    \cup [type : {"PeerFound"}, identifier : {0}, socket_addr : {AddrC}]
    \cup [type : {"PredecessorNotify"}, socket_addr : {AddrC, AddrD}]
    \cup [type : {"PredecessorReply"}, socket_addr : {AddrC}]

\* The connections handled: the last one with its server, node, message,
\* reply and result, and the servers that have returned an error.
NoConnections ==
    [fn |-> "handle_connection", pending |-> <<>>, done |-> <<>>, errors |-> {}]

\* The connection is entered as the last one handled.
Handled(server, n, m, reply, result) ==
    call' = [call EXCEPT
               !.done = <<[server |-> server, node |-> n, msg |-> m,
                           reply |-> reply, result |-> result]>>,
               !.errors = IF result = "Ok" THEN @ ELSE @ \cup {<<server, n>>}]

\* A match that takes a PeerFound for a PeerFind.
P2PHandler_match_peer_found(m) ==
    CASE m.type = "StorageGet" -> "handle_storage_get"
      [] m.type = "StoragePut" -> "handle_storage_put"
      [] m.type \in {"PeerFind", "PeerFound"} -> "handle_peer_find"
      [] m.type = "PredecessorNotify" -> "handle_predecessor_notify"
      [] OTHER -> "MessageError"

\* P2PHandler::handle_connection: the match on the message received.
P2PHandler_match(m) ==
    CASE m.type = "StorageGet" -> "handle_storage_get"
      [] m.type = "StoragePut" -> "handle_storage_put"
      [] m.type = "PeerFind" -> "handle_peer_find"
      [] m.type = "PredecessorNotify" -> "handle_predecessor_notify"
      [] OTHER -> "MessageError"

\* ApiHandler::handle_connection: the match on the message received.
ApiHandler_match(m) ==
    CASE m.type = "DhtGet" -> "handle_dht_get"
      [] m.type = "DhtPut" -> "handle_dht_put"
      [] OTHER -> "MessageError"

\* P2PHandler::handle_connection at node n with the message of a client: the
\* table and the values after the handler, the reply sent on the connection
\* (none when the sequence is empty) and the result of the handler.
P2PHandler_handle_connection(n, m) ==
    LET handler == P2PHandler_match(m)
        r == routing[n]
        store == storage[n]
        same == [routing |-> r, storage |-> store, reply |-> <<>>, result |-> "Ok"]
    IN  IF handler = "handle_storage_get"
        THEN LET key == [raw_key |-> m.raw_key, replication_index |-> m.replication_index]
                 value_opt == get_from_storage(store, key)
             IN  IF ~responsible_for(r, key_identifier(key)) THEN same
                 ELSE IF value_opt # <<>>
                 THEN [same EXCEPT !.reply = <<[type |-> "StorageGetSuccess",
                                                raw_key |-> m.raw_key,
                                                value |-> value_opt[1]]>>]
                 ELSE [same EXCEPT !.reply = <<[type |-> "StorageFailure",
                                                raw_key |-> m.raw_key]>>]
        ELSE IF handler = "handle_storage_put"
        THEN LET key == [raw_key |-> m.raw_key, replication_index |-> m.replication_index]
                 put == put_to_storage(store, key, m.value)
             IN  IF ~responsible_for(r, key_identifier(key)) THEN same
                 ELSE [same EXCEPT !.storage = put.storage,
                                   !.reply = <<[type |-> IF put.inserted
                                                         THEN "StoragePutSuccess"
                                                         ELSE "StorageFailure",
                                                raw_key |-> m.raw_key]>>]
        ELSE IF handler = "handle_peer_find"
        THEN [same EXCEPT !.reply = <<[type |-> "PeerFound",
                                       identifier |-> m.identifier,
                                       socket_addr |-> closest_peer(r, m.identifier)]>>]
        ELSE IF handler = "handle_predecessor_notify"
        THEN LET notified == notify_predecessor(r, m.socket_addr)
             IN  [same EXCEPT !.routing = notified.routing,
                              !.reply = <<[type |-> "PredecessorReply",
                                           socket_addr |-> notified.reply]>>]
        ELSE [same EXCEPT !.result = "MessageError"]

\* A worker of the p2p server of n takes a connection, handles the message
\* and drops the connection; an Err goes to handle_error, which logs it.
p2p_handle_connection(n, m) ==
    /\ status[n] = "up" /\ call.fn = "handle_connection"
    /\ LET handled == P2PHandler_handle_connection(n, m)
       IN  /\ routing' = [routing EXCEPT ![n] = handled.routing]
           /\ storage' = [storage EXCEPT ![n] = handled.storage]
           /\ Handled("p2p", n, m, handled.reply, handled.result)
    /\ UNCHANGED <<status, api, stab, boot, hist, requests, ticks, crashes,
                   thread, mutex, codec>>

\* The worker of the api server of n takes a connection: handle_dht_get or
\* handle_dht_put starts, or the Err goes to handle_error, which logs it.
api_handle_connection(n, m) ==
    /\ call.fn = "handle_connection"
    /\ LET handler == ApiHandler_match(m)
       IN  IF handler = "handle_dht_get" THEN handle_dht_get(n, m.key)
           ELSE IF handler = "handle_dht_put"
           THEN handle_dht_put(n, m.ttl, m.replication, m.key, m.value)
           ELSE /\ status[n] = "up" /\ api[n].pc = "idle"
                /\ Handled("api", n, m, <<>>, "MessageError")
                /\ UNCHANGED <<ringvars, thread, mutex, codec>>

\* -------------------------------------------------------------------- replies

\* The well-formed messages a peer sends as its reply: the replies the
\* procedures wait for, a reply of another procedure and two requests.
Reply ==
    [type : {"PeerFound"}, identifier : {0}, socket_addr : {AddrC, AddrD}]
    \cup [type : {"PredecessorReply"}, socket_addr : {AddrC, AddrD}]
    \cup [type : {"StoragePutSuccess", "StorageFailure"}, raw_key : RawKey]
    \cup [type : {"StorageGetSuccess"}, raw_key : RawKey, value : {<<8>>}]
    \cup [type : {"DhtGet"}, key : RawKey]
    \cup [type : {"PredecessorNotify"}, socket_addr : {AddrC}]

\* No reply received yet by a procedure.
NoReplies == [fn |-> "receive", pending |-> <<>>, done |-> <<>>]

\* The reply a procedure has received is entered as the last one, with the
\* node, the procedure and whether the procedure returned Ok.
Replied(n, procedure, msg, ok) ==
    call' = [call EXCEPT !.done = <<[node |-> n, procedure |-> procedure,
                                     msg |-> msg, ok |-> ok]>>]

\* A notify_predecessor that takes the address of any reply that has one.
Procedures_notify_predecessor_any(msg) ==
    IF "socket_addr" \in DOMAIN msg
    THEN [ok |-> TRUE, addr |-> msg.socket_addr]
    ELSE [ok |-> FALSE, addr |-> AddrA]

\* Procedures::notify_predecessor after con.receive(): the address of a
\* PredecessorReply, MessageError for any other message.
Procedures_notify_predecessor(msg) ==
    IF msg.type = "PredecessorReply"
    THEN [ok |-> TRUE, addr |-> msg.socket_addr]
    ELSE [ok |-> FALSE, addr |-> AddrA]

\* Procedures::find_peer after con.receive(): the address of a PeerFound,
\* MessageError for any other message.
Procedures_find_peer(msg) ==
    IF msg.type = "PeerFound"
    THEN [ok |-> TRUE, addr |-> msg.socket_addr]
    ELSE [ok |-> FALSE, addr |-> AddrA]

\* Procedures::put_value after con.receive(): Ok for StoragePutSuccess and
\* StorageFailure, MessageError for any other message.
Procedures_put_value(msg) == msg.type \in {"StoragePutSuccess", "StorageFailure"}

\* update_successor: notify_predecessor(current, successor)? with a peer
\* that replies msg.
update_successor_reply(n, msg) ==
    /\ status[n] = "up" /\ stab[n].pc = "notify" /\ call.fn = "receive"
    /\ LET new_successor == Procedures_notify_predecessor(msg)
       IN  /\ stab' = [stab EXCEPT ![n] =
                 IF new_successor.ok
                 THEN [@ EXCEPT !.pc = "set", !.cand = new_successor.addr]
                 ELSE [@ EXCEPT !.pc = "fingers", !.res = "error"]]
           /\ Replied(n, "notify_predecessor", msg, new_successor.ok)
    /\ UNCHANGED <<status, routing, storage, api, boot, hist, requests, ticks, crashes,
                   thread, mutex, codec>>

\* update_fingers: one round of find_peer(identifier, successor)? with a
\* peer that replies msg.
update_fingers_reply(n, msg) ==
    /\ status[n] = "up" /\ stab[n].pc = "ffind" /\ call.fn = "receive"
    /\ LET peer_addr == stab[n].peer
           reply == Procedures_find_peer(msg)
       IN  /\ stab' = [stab EXCEPT ![n] =
                 IF ~reply.ok THEN StabDone(@, FALSE)
                 ELSE [@ EXCEPT !.pc = IF reply.addr = peer_addr THEN "fset" ELSE "ffind",
                                !.peer = reply.addr]]
           /\ Replied(n, "find_peer", msg, reply.ok)
    /\ UNCHANGED <<status, routing, storage, api, boot, hist, requests, ticks, crashes,
                   thread, mutex, codec>>

\* handle_dht_put: one round of find_peer(identifier, peer_addr)? with a
\* peer that replies msg.
api_find_peer_reply(n, msg) ==
    /\ status[n] = "up" /\ api[n].pc = "find" /\ call.fn = "receive"
    /\ LET peer_addr == api[n].peer
           reply == Procedures_find_peer(msg)
       IN  /\ IF ~reply.ok THEN ApiError(n)
              ELSE IF reply.addr = peer_addr
              THEN ApiStep(n, [api[n] EXCEPT !.pc = "sent",
                                  !.sent = Append(@, StorageRequest(api[n], peer_addr))])
              ELSE ApiStep(n, [api[n] EXCEPT !.peer = reply.addr])
           /\ Replied(n, "find_peer", msg, reply.ok)
    /\ UNCHANGED <<status, routing, storage, stab, boot, requests, ticks, crashes,
                   thread, mutex, codec>>

\* handle_dht_put: put_value(peer_addr, key, ttl, value)? with a peer that
\* replies msg.
put_value_reply(n, msg) ==
    /\ status[n] = "up" /\ api[n].pc = "sent" /\ api[n].op = "put"
    /\ call.fn = "receive"
    /\ IF Procedures_put_value(msg)
       THEN ApiStep(n, PutLoop([api[n] EXCEPT !.p2p = msg.type], api[n].i + 1))
       ELSE ApiError(n)
    /\ Replied(n, "put_value", msg, Procedures_put_value(msg))
    /\ UNCHANGED <<status, routing, storage, stab, boot, requests, ticks, crashes,
                   thread, mutex, codec>>

\* ------------------------------------------------- concurrent notifications

\* The node whose threads are modelled.
ThisNode == AddrA

\* A notify_predecessor that drops the guard after reading the old
\* predecessor and takes the lock again for the updates.
notify_predecessor_steps_two_sections ==
    <<"lock_routing", "read_predecessor", "unlock_routing",
      "lock_routing", "check_responsible", "check_predecessor", "check_successor",
      "unlock_routing", "send_reply">>

\* P2PHandler::handle_predecessor_notify: notify_predecessor statement by
\* statement under its one guard, then the reply.
notify_predecessor_steps ==
    <<"lock_routing", "read_predecessor", "check_responsible", "check_predecessor",
      "check_successor", "unlock_routing", "send_reply">>

\* The routing tables a node may have when the notifications arrive.
NotifiedTable ==
    {Routing_new(ThisNode, predecessor, successor, [i \in 1 .. Fingers |-> ThisNode]) :
        predecessor \in Node, successor \in Node}

\* Two PredecessorNotify requests on their way to the node.
NotifyCalls ==
    {[fn |-> "notify_predecessor", table |-> r, pending |-> <<p, q>>, done |-> <<>>] :
        r \in NotifiedTable, p \in Node, q \in Node}

\* Server::listen: a free worker takes the next connection and the handler
\* receives the PredecessorNotify message.
notify_accept(t) ==
    /\ t \notin {"api", "stabilization"}
    /\ Step(t) = "idle" /\ call.fn = "notify_predecessor" /\ call.pending # <<>>
    /\ thread' = [thread EXCEPT ![t].steps = notify_predecessor_steps, ![t].pc = 1,
                                ![t].predecessor_addr = Head(call.pending)]
    /\ call' = [call EXCEPT !.pending = Tail(@)]
    /\ UNCHANGED <<ringvars, mutex, codec>>

\* let old_predecessor_addr = *routing.predecessor;
notify_read(t) ==
    /\ Step(t) = "read_predecessor"
    /\ thread' = [thread EXCEPT ![t].pc = @ + 1,
                                ![t].old_predecessor_addr = routing[ThisNode].predecessor]
    /\ UNCHANGED <<ringvars, mutex, codec, call>>

\* The three ifs of notify_predecessor, one per step.
notify_check(t) ==
    /\ Step(t) \in {"check_responsible", "check_predecessor", "check_successor"}
    /\ LET r == routing[ThisNode]
           predecessor_addr == thread[t].predecessor_addr
       IN  routing' = [routing EXCEPT ![ThisNode] =
             IF Step(t) = "check_responsible"
             THEN IF responsible_for(r, addr_identifier(predecessor_addr))
                  THEN set_predecessor(r, predecessor_addr) ELSE r
             ELSE IF Step(t) = "check_predecessor"
             THEN IF r.predecessor = r.current
                  THEN set_predecessor(r, predecessor_addr) ELSE r
             ELSE IF r.successor = r.current
                  THEN set_successor(r, predecessor_addr) ELSE r]
    /\ Advance(t)
    /\ UNCHANGED <<status, storage, api, stab, boot, hist, requests, ticks, crashes,
                   mutex, codec, call>>

\* The PredecessorReply with the old predecessor is sent.
notify_reply(t) ==
    /\ Step(t) = "send_reply"
    /\ call' = [call EXCEPT !.done =
                   Append(@, [args |-> <<thread[t].predecessor_addr>>,
                              result |-> thread[t].old_predecessor_addr])]
    /\ Advance(t)
    /\ UNCHANGED <<ringvars, mutex, codec>>

\* ---------------------------------------------------------- routing calls

\* x.is_between(a, b) and then x.is_between(b, a), for any identifiers.
IsBetweenCalls ==
    {[fn |-> "is_between", pending |-> <<<<x, a, b>>, <<x, b, a>>>>, done |-> <<>>] :
        x \in Identifier, a \in Identifier, b \in Identifier}

\* The routing tables of closest_peer: any addresses, F fingers.
RoutingTable ==
    {Routing_new(current, predecessor, successor, finger_table) :
        current \in Node, predecessor \in Node, successor \in Node,
        finger_table \in [1 .. Fingers -> Node]}

\* routing.closest_peer(identifier) for any routing table and identifier.
ClosestPeerCalls ==
    {[fn |-> "closest_peer", pending |-> <<<<r, identifier>>>>, done |-> <<>>] :
        r \in RoutingTable, identifier \in Identifier}

\* The result of the first pending call is recorded with its arguments.
Return(result) ==
    call' = [call EXCEPT !.pending = Tail(@),
                         !.done = Append(@, [args |-> Head(call.pending),
                                             result |-> result])]

\* Identifier::is_between is called.
call_is_between ==
    /\ call.fn = "is_between" /\ call.pending # <<>>
    /\ LET args == Head(call.pending)
       IN  Return(is_between(args[1], args[2], args[3]))
    /\ UNCHANGED <<ringvars, thread, mutex, codec>>

\* Routing::closest_peer is called on a shared reference of the table.
call_closest_peer ==
    /\ call.fn = "closest_peer" /\ call.pending # <<>>
    /\ LET args == Head(call.pending)
       IN  Return(closest_peer(args[1], args[2]))
    /\ UNCHANGED <<ringvars, thread, mutex, codec>>

\* ---------------------------------------------------------------------- codec

\* Message: the type codes of the frame header.
DHT_PUT == 650
DHT_GET == 651
DHT_SUCCESS == 652
DHT_FAILURE == 653
STORAGE_GET == 1000
STORAGE_PUT == 1001
STORAGE_GET_SUCCESS == 1002
STORAGE_PUT_SUCCESS == 1003
STORAGE_FAILURE == 1004
PEER_FIND == 1050
PEER_FOUND == 1051
PREDECESSOR_NOTIFY == 1052
PREDECESSOR_REPLY == 1053

\* The range of a u16.
U16 == 2 ^ 16

\* The length of the buffer of a Connection.
MAX_MESSAGE_SIZE == 64000

\* [u8; 32] of keys and identifiers, at the width of the model.
KeyLen == Len(CHOOSE k \in RawKey : TRUE)
IdBytes == (IdBits + 7) \div 8

\* WriteBytesExt::write_u16::<NetworkEndian> / ReadBytesExt::read_u16.
write_u16(x) == <<(x \div 256) % 256, x % 256>>
read_u16(bytes, at) == bytes[at] * 256 + bytes[at + 1]

\* U256::to_big_endian / from_big_endian.
RECURSIVE to_big_endian(_, _)
to_big_endian(x, n) ==
    IF n = 0 THEN <<>> ELSE Append(to_big_endian(x \div 256, n - 1), x % 256)

RECURSIVE from_big_endian(_)
from_big_endian(bytes) ==
    IF bytes = <<>> THEN 0
    ELSE from_big_endian(SubSeq(bytes, 1, Len(bytes) - 1)) * 256 + bytes[Len(bytes)]

\* Identifier::as_bytes / Identifier::new.
as_bytes(identifier) == to_big_endian(identifier, IdBytes)
Identifier_new(bytes) == from_big_endian(bytes) % RingSize

\* Ipv4Addr::to_ipv6_mapped: ::ffff:a.b.c.d.
to_ipv6_mapped(ipv4) == [i \in 1 .. 10 |-> 0] \o <<255, 255>> \o ipv4

\* Ipv6Addr::to_ipv4: Some for an IPv4-mapped (::ffff:a.b.c.d) and for an
\* IPv4-compatible (::a.b.c.d) address, None (the empty sequence) otherwise.
to_ipv4(ipv6) ==
    IF /\ \A i \in 1 .. 10 : ipv6[i] = 0
       /\ SubSeq(ipv6, 11, 12) \in {<<0, 0>>, <<255, 255>>}
    THEN SubSeq(ipv6, 13, 16) ELSE <<>>

\* The socket address of PEER FOUND, PREDECESSOR NOTIFY and PREDECESSOR
\* REPLY on the wire: 16 octets and the port.
write_socket_addr(socket_addr) ==
    LET ip_address == IF Len(socket_addr.ip) = 4
                      THEN to_ipv6_mapped(socket_addr.ip) ELSE socket_addr.ip
    IN  ip_address \o write_u16(socket_addr.port)

parse_socket_addr(bytes) ==
    LET ipv6 == SubSeq(bytes, 1, 16)
        ip_address == IF to_ipv4(ipv6) # <<>> THEN to_ipv4(ipv6) ELSE ipv6
    IN  [ip |-> ip_address, port |-> read_u16(bytes, 17)]

\* An Err of parse with its io::ErrorKind.
ParseError(kind) == [type |-> "Err", kind |-> kind]

\* MessagePayload::write_to of the api messages.
api_write_to(m) ==
    CASE m.type = "DhtPut" ->
           write_u16(m.ttl) \o <<m.replication>> \o <<0>> \o m.key \o m.value
      [] m.type = "DhtGet" -> m.key
      [] m.type = "DhtSuccess" -> m.key \o m.value
      [] m.type = "DhtFailure" -> m.key

\* MessagePayload::parse of the api messages: read_exact fails on a short
\* payload, read_to_end takes the rest.
api_parse(type, bytes) ==
    LET n == Len(bytes)
    IN  CASE type = "DhtPut" ->
               IF n < 4 + KeyLen THEN ParseError("UnexpectedEof")
               ELSE [type |-> type, ttl |-> read_u16(bytes, 1), replication |-> bytes[3],
                     key |-> SubSeq(bytes, 5, 4 + KeyLen),
                     value |-> SubSeq(bytes, 5 + KeyLen, n)]
          [] type = "DhtSuccess" ->
               IF n < KeyLen THEN ParseError("UnexpectedEof")
               ELSE [type |-> type, key |-> SubSeq(bytes, 1, KeyLen),
                     value |-> SubSeq(bytes, KeyLen + 1, n)]
          [] type \in {"DhtGet", "DhtFailure"} ->
               IF n < KeyLen THEN ParseError("UnexpectedEof")
               ELSE [type |-> type, key |-> SubSeq(bytes, 1, KeyLen)]

\* MessagePayload::write_to of the p2p messages.
p2p_write_to(m) ==
    CASE m.type = "StorageGet" -> <<m.replication_index, 0, 0, 0>> \o m.raw_key
      [] m.type = "StoragePut" ->
           write_u16(m.ttl) \o <<m.replication_index>> \o <<0>> \o m.raw_key \o m.value
      [] m.type = "StorageGetSuccess" -> m.raw_key \o m.value
      [] m.type \in {"StoragePutSuccess", "StorageFailure"} -> m.raw_key
      [] m.type = "PeerFind" -> as_bytes(m.identifier)
      [] m.type = "PeerFound" ->
           as_bytes(m.identifier) \o write_socket_addr(m.socket_addr)
      [] m.type \in {"PredecessorNotify", "PredecessorReply"} ->
           write_socket_addr(m.socket_addr)

\* MessagePayload::parse of the p2p messages.
p2p_parse(type, bytes) ==
    LET n == Len(bytes)
    IN  CASE type = "StorageGet" ->
               IF n < 4 + KeyLen THEN ParseError("UnexpectedEof")
               ELSE [type |-> type, replication_index |-> bytes[1],
                     raw_key |-> SubSeq(bytes, 5, 4 + KeyLen)]
          [] type = "StoragePut" ->
               IF n < 4 + KeyLen THEN ParseError("UnexpectedEof")
               ELSE [type |-> type, ttl |-> read_u16(bytes, 1),
                     replication_index |-> bytes[3],
                     raw_key |-> SubSeq(bytes, 5, 4 + KeyLen),
                     value |-> SubSeq(bytes, 5 + KeyLen, n)]
          [] type = "StorageGetSuccess" ->
               IF n < KeyLen THEN ParseError("UnexpectedEof")
               ELSE [type |-> type, raw_key |-> SubSeq(bytes, 1, KeyLen),
                     value |-> SubSeq(bytes, KeyLen + 1, n)]
          [] type \in {"StoragePutSuccess", "StorageFailure"} ->
               IF n < KeyLen THEN ParseError("UnexpectedEof")
               ELSE [type |-> type, raw_key |-> SubSeq(bytes, 1, KeyLen)]
          [] type = "PeerFind" ->
               IF n < IdBytes THEN ParseError("UnexpectedEof")
               ELSE [type |-> type, identifier |-> Identifier_new(SubSeq(bytes, 1, IdBytes))]
          [] type = "PeerFound" ->
               IF n < IdBytes + 18 THEN ParseError("UnexpectedEof")
               ELSE [type |-> type,
                     identifier |-> Identifier_new(SubSeq(bytes, 1, IdBytes)),
                     socket_addr |-> parse_socket_addr(SubSeq(bytes, IdBytes + 1, IdBytes + 18))]
          [] type \in {"PredecessorNotify", "PredecessorReply"} ->
               IF n < 18 THEN ParseError("UnexpectedEof")
               ELSE [type |-> type, socket_addr |-> parse_socket_addr(SubSeq(bytes, 1, 18))]

ApiType == {"DhtPut", "DhtGet", "DhtSuccess", "DhtFailure"}

\* The type code of a message and the message type of a code.
TypeCode ==
    [DhtPut |-> DHT_PUT, DhtGet |-> DHT_GET, DhtSuccess |-> DHT_SUCCESS,
     DhtFailure |-> DHT_FAILURE, StorageGet |-> STORAGE_GET,
     StoragePut |-> STORAGE_PUT, StorageGetSuccess |-> STORAGE_GET_SUCCESS,
     StoragePutSuccess |-> STORAGE_PUT_SUCCESS, StorageFailure |-> STORAGE_FAILURE,
     PeerFind |-> PEER_FIND, PeerFound |-> PEER_FOUND,
     PredecessorNotify |-> PREDECESSOR_NOTIFY, PredecessorReply |-> PREDECESSOR_REPLY]

\* Message::write_to: the frame in the writer and the size returned.  The
\* two bytes reserved for the size are overwritten with `size as u16`.
Message_write_to(m) ==
    LET payload == IF m.type \in ApiType THEN api_write_to(m) ELSE p2p_write_to(m)
        body == write_u16(TypeCode[m.type]) \o payload
        size == 2 + Len(body)
    IN  [buffer |-> write_u16(size % U16) \o body, size |-> size]

\* Message::parse: size and type, then the payload out of at most size - 4
\* bytes of the reader.
Message_parse(bytes) ==
    IF Len(bytes) < 4 THEN ParseError("UnexpectedEof")
    ELSE LET size == read_u16(bytes, 1)
             msg_type == read_u16(bytes, 3)
             rest == SubSeq(bytes, 5, Len(bytes))
             reader == IF Len(rest) <= size - 4 THEN rest ELSE SubSeq(rest, 1, size - 4)
             types == {t \in DOMAIN TypeCode : TypeCode[t] = msg_type}
         IN  IF size < 4 \/ types = {} THEN ParseError("InvalidInput")
             ELSE LET type == CHOOSE t \in types : TRUE
                  IN  IF type \in ApiType THEN api_parse(type, reader)
                      ELSE p2p_parse(type, reader)

\* The socket addresses of the messages: an IPv4 address, the IPv6 loopback,
\* an IPv6 address with the IPv4-mapped prefix and another IPv6 address.
Ipv6Loopback == [i \in 1 .. 15 |-> 0] \o <<1>>
Ipv6Global == <<32, 1, 13, 184>> \o [i \in 1 .. 11 |-> 0] \o <<1>>
SocketAddr ==
    {AddrA, AddrC,
     [ip |-> Ipv6Loopback, port |-> 9000],
     [ip |-> to_ipv6_mapped(AddrA.ip), port |-> 9000],
     [ip |-> Ipv6Global, port |-> 9000]}

\* A Vec<u8> value is described by its first bytes and the number of zero
\* bytes that follow them; Vec is the value described.
Vec(v) == v.data \o [i \in 1 .. v.zeros |-> 0]

\* Values that fill the buffer of a Connection exactly (after the fixed
\* fields of a put and of a success message), exceed it by one byte, and
\* exceed the range of the size field.
LargeValue ==
    {[data |-> <<>>, zeros |-> n] :
        n \in {MAX_MESSAGE_SIZE - 8 - KeyLen, MAX_MESSAGE_SIZE - 4 - KeyLen,
               MAX_MESSAGE_SIZE - 3 - KeyLen, U16 + 1}}

CodecTtl == Ttl \cup {300}
CodecValue ==
    {[data |-> d, zeros |-> 0] : d \in Value \cup {<<>>, <<9, 8>>}} \cup LargeValue

\* The well-formed messages of the 13 types, each value by its description.
Message ==
    [type : {"DhtPut"}, ttl : CodecTtl, replication : Replication,
     key : RawKey, value : CodecValue]
    \cup [type : {"DhtGet", "DhtFailure"}, key : RawKey]
    \cup [type : {"DhtSuccess"}, key : RawKey, value : CodecValue]
    \cup [type : {"StorageGet"}, replication_index : ReplicationIndex, raw_key : RawKey]
    \cup [type : {"StoragePut"}, ttl : CodecTtl, replication_index : ReplicationIndex,
          raw_key : RawKey, value : CodecValue]
    \cup [type : {"StorageGetSuccess"}, raw_key : RawKey, value : CodecValue]
    \cup [type : {"StoragePutSuccess", "StorageFailure"}, raw_key : RawKey]
    \cup [type : {"PeerFind"}, identifier : Identifier]
    \cup [type : {"PeerFound"}, identifier : Identifier, socket_addr : SocketAddr]
    \cup [type : {"PredecessorNotify", "PredecessorReply"}, socket_addr : SocketAddr]

\* The message described: its value, when it has one, is the Vec described.
Described(m) ==
    IF "value" \in DOMAIN m THEN [m EXCEPT !.value = Vec(m.value)] ELSE m

\* A writer that grows with what is written, as a Cursor over a Vec does.
Cursor_write_all_vec(size) == TRUE

\* Cursor::new(self.buffer.as_mut()): write_all into the slice fails once the
\* slice is full, so the writes of a frame succeed iff the frame fits.
Cursor_write_all(size) == size <= MAX_MESSAGE_SIZE

\* Connection::send: the message is written into the buffer and the bytes
\* written are sent; an Err of write_to is returned and nothing is sent.
codec_write_to ==
    /\ codec.pc = "message"
    /\ LET written == Message_write_to(Described(codec.msg))
       IN  IF Cursor_write_all(written.size)
           THEN codec' = [codec EXCEPT !.pc = "written", !.buffer = written.buffer,
                                       !.size = written.size]
           ELSE codec' = [codec EXCEPT !.pc = "failed"]
    /\ UNCHANGED <<ringvars, thread, mutex, call>>

\* The frames a peer may send: a header with any size and type code, known
\* or not, and any payload.
MaxPayload == 3
UnknownCode == PREDECESSOR_REPLY + 1
FrameSize == 0 .. 4 + KeyLen + MaxPayload
FrameCode == {DHT_GET, DHT_SUCCESS, STORAGE_PUT_SUCCESS, PEER_FIND, UnknownCode}
RECURSIVE Payload(_)
Payload(n) ==
    IF n = 0 THEN {<<>>}
    ELSE Payload(n - 1)
         \cup {Append(bytes, b) : bytes \in Payload(n - 1), b \in {0, 34}}
Frame ==
    {write_u16(size) \o write_u16(code) \o payload :
        size \in FrameSize, code \in FrameCode, payload \in Payload(MaxPayload)}

\* Connection::receive: the message is parsed from the bytes read from the
\* stream, which are the bytes the peer sent.
codec_parse ==
    /\ codec.pc \in {"written", "received"}
    /\ codec' = [codec EXCEPT !.pc = "parsed",
                              !.parsed = Message_parse(SubSeq(codec.buffer, 1, codec.size))]
    /\ UNCHANGED <<ringvars, thread, mutex, call>>

\* ------------------------------------------------------------- specification

\* The threads of one node: their handlers' locks and network I/O.
NextLocks ==
    \/ \E t \in Thread : \E steps \in Handlers(t) : handle_connection(t, steps)
    \/ \E t \in Thread : lock(t)
    \/ \E t \in Thread : unlock(t)
    \/ \E t \in Thread : network_io(t)

\* The codec steps.
NextCodec == codec_write_to \/ codec_parse

\* Joins and stabilization threads that tick for ever; no node fails.
NextStabilization ==
    \/ \E n \in Node, boot_addr \in Node : bootstrap(n, boot_addr)
    \/ \E n \in Node : bootstrap_find_peer(n)
    \/ \E n \in Node : bootstrap_notify(n)
    \/ \E n \in Node : stabilize_loop(n)
    \/ \E n \in Node : update_successor_notify(n)
    \/ \E n \in Node : update_successor_set(n)
    \/ \E n \in Node : update_fingers(n)
    \/ \E n \in Node : update_fingers_find_peer(n)
    \/ \E n \in Node : update_fingers_set(n)

\* The servers of a node take connections of clients that send any message.
NextDispatch ==
    \/ \E n \in Node, m \in Received : p2p_handle_connection(n, m)
    \/ \E n \in Node, m \in Received : api_handle_connection(n, m)
    \/ \E n \in Node : get_closest_peer(n)
    \/ \E n \in Node : api_find_peer(n)
    \/ \E n \in Node : handle_storage_check(n)
    \/ \E n \in Node : handle_storage_get(n)
    \/ \E n \in Node : handle_storage_put(n)

\* A node among peers that reply with any well-formed message.
NextReplies ==
    \/ \E n \in Node : stabilize(n)
    \/ \E n \in Node, msg \in Reply : update_successor_reply(n, msg)
    \/ \E n \in Node : update_successor_set(n)
    \/ \E n \in Node : update_fingers(n)
    \/ \E n \in Node, msg \in Reply : update_fingers_reply(n, msg)
    \/ \E n \in Node : update_fingers_set(n)
    \/ \E n \in Node, ttl \in Ttl, k \in RawKey :
          handle_dht_put(n, ttl, 2, k, <<8>>)
    \/ \E n \in Node : get_closest_peer(n)
    \/ \E n \in Node, msg \in Reply : api_find_peer_reply(n, msg)
    \/ \E n \in Node, msg \in Reply : put_value_reply(n, msg)

\* ------------------------------------------------------- concurrent puts

\* A handle_storage_put whose put_to_storage drops the guard after
\* contains_key and takes the lock again for the insert.
handle_storage_put_steps_two_sections ==
    <<"lock_routing", "check_range", "unlock_routing",
      "lock_storage", "contains_key", "unlock_storage",
      "lock_storage", "insert", "unlock_storage", "send_put_reply">>

\* P2PHandler::handle_storage_put: responsible_for under the routing guard,
\* put_to_storage statement by statement under the storage guard, then the
\* reply.
handle_storage_put_steps ==
    <<"lock_routing", "check_range", "unlock_routing",
      "lock_storage", "contains_key", "insert", "unlock_storage", "send_put_reply">>

\* The StoragePut and PredecessorNotify requests sent to the node.
PutRequest ==
    [type : {"StoragePut"}, ttl : Ttl, replication_index : {0, 1},
     raw_key : RawKey, value : Value]
    \cup [type : {"PredecessorNotify"}, socket_addr : Node]

\* Key { raw_key, replication_index } of a StoragePut.
storage_put_key(m) == [raw_key |-> m.raw_key, replication_index |-> m.replication_index]

\* The value tables a node with the routing table r may hold: nothing, or
\* one value it has stored as the responsible node.
StoredBefore(r) ==
    {EmptyStorage}
    \cup {key :> <<9>> : key \in {k \in Key : responsible_for(r, key_identifier(k))}}

\* Two requests on their way to a node with the given tables.
PutCalls ==
    {[fn |-> "handle_storage_put", table |-> r, store |-> s, calls |-> <<p, q>>,
      pending |-> <<p, q>>, done |-> <<>>] :
        r \in NotifiedTable, s \in UNION {StoredBefore(x) : x \in NotifiedTable},
        p \in PutRequest, q \in PutRequest}

\* Server::listen: a free worker takes the next connection;
\* P2PHandler::handle_connection receives the message and dispatches it.
put_accept(t) ==
    /\ t \notin {"api", "stabilization"}
    /\ Step(t) = "idle" /\ call.fn = "handle_storage_put" /\ call.pending # <<>>
    /\ LET m == Head(call.pending)
       IN  thread' = [thread EXCEPT ![t] =
             IF m.type = "StoragePut"
             THEN [@ EXCEPT !.steps = handle_storage_put_steps, !.pc = 1,
                            !.storage_put = m, !.inserted = FALSE]
             ELSE [@ EXCEPT !.steps = notify_predecessor_steps, !.pc = 1,
                            !.predecessor_addr = m.socket_addr]]
    /\ call' = [call EXCEPT !.pending = Tail(@)]
    /\ UNCHANGED <<ringvars, mutex, codec>>

\* if self.responsible_for(key.identifier()): the handler returns without a
\* reply when the key is out of range.
put_check_range(t) ==
    /\ Step(t) = "check_range"
    /\ thread' = [thread EXCEPT ![t].pc =
         IF responsible_for(routing[ThisNode],
                            key_identifier(storage_put_key(thread[t].storage_put)))
         THEN @ + 1 ELSE Len(thread[t].steps) + 1]
    /\ UNCHANGED <<ringvars, mutex, codec, call>>

\* if storage.contains_key(&key) { return false; }
put_contains_key(t) ==
    /\ Step(t) = "contains_key"
    /\ thread' = [thread EXCEPT ![t].pc = @ + 1,
         ![t].inserted = storage_put_key(thread[t].storage_put)
                            \notin DOMAIN storage[ThisNode]]
    /\ UNCHANGED <<ringvars, mutex, codec, call>>

\* storage.insert(key, value), skipped after return false.
put_insert(t) ==
    /\ Step(t) = "insert"
    /\ storage' = [storage EXCEPT ![ThisNode] =
         IF thread[t].inserted
         THEN (storage_put_key(thread[t].storage_put) :> thread[t].storage_put.value) @@ @
         ELSE @]
    /\ Advance(t)
    /\ UNCHANGED <<status, routing, api, stab, boot, hist, requests, ticks, crashes,
                   mutex, codec, call>>

\* con.send(&msg) with StoragePutSuccess or StorageFailure.
put_reply(t) ==
    /\ Step(t) = "send_put_reply"
    /\ call' = [call EXCEPT !.done =
                   Append(@, [args |-> <<thread[t].storage_put>>,
                              result |-> IF thread[t].inserted
                                         THEN "StoragePutSuccess" ELSE "StorageFailure"])]
    /\ Advance(t)
    /\ UNCHANGED <<ringvars, mutex, codec>>

\* The workers of a node handle StoragePut and PredecessorNotify requests.
NextPut ==
    \/ \E t \in Thread : put_accept(t)
    \/ \E t \in Thread : lock(t)
    \/ \E t \in Thread : put_check_range(t)
    \/ \E t \in Thread : put_contains_key(t)
    \/ \E t \in Thread : put_insert(t)
    \/ \E t \in Thread : notify_read(t)
    \/ \E t \in Thread : notify_check(t)
    \/ \E t \in Thread : unlock(t)
    \/ \E t \in Thread : put_reply(t)
    \/ \E t \in Thread : notify_reply(t)

\* The workers of a node handle PredecessorNotify requests.
NextNotify ==
    \/ \E t \in Thread : notify_accept(t)
    \/ \E t \in Thread : lock(t)
    \/ \E t \in Thread : notify_read(t)
    \/ \E t \in Thread : notify_check(t)
    \/ \E t \in Thread : unlock(t)
    \/ \E t \in Thread : notify_reply(t)

\* ------------------------------------------------------------ finger index

\* The width of usize.
UsizeBits == 4

\* The largest number of fingers a configuration file gives.
MaxFingers == 6

\* Config::load_from_file: fingers is any usize, 128 when the file has none.
ConfigFingers == 0 .. MaxFingers

\* a - b on usize: the difference, or below zero a panic (overflow checks
\* on) or the wrapped difference (overflow checks off).
usize_sub(a, b) ==
    IF a >= b THEN {[panic |-> FALSE, value |-> a - b]}
    ELSE {[panic |-> TRUE, value |-> 0],
          [panic |-> FALSE, value |-> (a - b + 2 ^ UsizeBits) % (2 ^ UsizeBits)]}

\* Identifier::with_bit: U256::one() << index; beyond the width of the
\* identifier a panic, as documented, or a shift that leaves no bit.
Identifier_with_bit(index) ==
    IF index < IdBits THEN {[panic |-> FALSE, value |-> with_bit(index)]}
    ELSE {[panic |-> TRUE, value |-> 0], [panic |-> FALSE, value |-> 0]}

\* update_fingers of a node with any configured number of fingers.
FingerCalls ==
    {[fn |-> "update_fingers", current |-> n, fingers |-> f, i |-> 0,
      index |-> 0, identifier |-> 0, result |-> "running"] :
        n \in Node, f \in ConfigFingers}

\* update_fingers: one iteration of for i in 0..fingers with the index
\* arithmetic of the finger identifier; the lookup returns.
call_update_fingers ==
    /\ call.fn = "update_fingers" /\ call.result = "running"
    /\ IF call.i >= call.fingers
       THEN call' = [call EXCEPT !.result = "ok"]
       ELSE \E d \in usize_sub(IdBits - 1, call.i) :
              IF d.panic
              THEN call' = [call EXCEPT !.result = "panic"]
              ELSE \E bit \in Identifier_with_bit(d.value) :
                     IF bit.panic
                     THEN call' = [call EXCEPT !.result = "panic", !.index = d.value]
                     ELSE call' = [call EXCEPT
                            !.i = @ + 1, !.index = d.value,
                            !.identifier = add(addr_identifier(call.current), bit.value)]
    /\ UNCHANGED <<ringvars, thread, mutex, codec>>

NextFingers == call_update_fingers

\* The calls of the routing module.
NextIsBetween == call_is_between

NextClosestPeer == call_closest_peer

Next ==
    \/ \E n \in Node, k \in RawKey : handle_dht_get(n, k)
    \/ \E n \in Node, ttl \in Ttl, replication \in Replication, k \in RawKey,
          v \in Value : handle_dht_put(n, ttl, replication, k, v)
    \/ \E n \in Node : get_closest_peer(n)
    \/ \E n \in Node : api_find_peer(n)
    \/ \E n \in Node : handle_storage_check(n)
    \/ \E n \in Node : handle_storage_get(n)
    \/ \E n \in Node : handle_storage_put(n)
    \/ \E n \in Node, boot_addr \in Node : bootstrap(n, boot_addr)
    \/ \E n \in Node : bootstrap_find_peer(n)
    \/ \E n \in Node : bootstrap_notify(n)
    \/ \E n \in Node : stabilize(n)
    \/ \E n \in Node : update_successor_notify(n)
    \/ \E n \in Node : update_successor_set(n)
    \/ \E n \in Node : update_fingers(n)
    \/ \E n \in Node : update_fingers_find_peer(n)
    \/ \E n \in Node : update_fingers_set(n)
    \/ \E n \in Node : crash(n)
    \/ NextStabilization
    \/ NextLocks
    \/ NextNotify
    \/ NextFingers
    \/ NextPut
    \/ NextDispatch
    \/ NextReplies
    \/ NextCodec
    \/ NextIsBetween
    \/ NextClosestPeer

Spec == Init /\ [][Next]_vars

SpecLocks == Init /\ [][NextLocks]_vars

\* The codec: a message of the bounded set is written and parsed back.
InitCodec ==
    /\ InitRing
    /\ thread = [t \in Thread |-> ThreadIdle]
    /\ mutex = MutexFree
    /\ call = NoCall
    /\ \E m \in Message : codec = [CodecIdle EXCEPT !.pc = "message", !.msg = m]

SpecCodec == InitCodec /\ [][NextCodec]_vars

\* Two hosts with distinct identifiers.
InitDistinct ==
    /\ InitHosts({AddrA, AddrC})
    /\ thread = [t \in Thread |-> ThreadIdle]
    /\ mutex = MutexFree
    /\ codec = CodecIdle
    /\ call = NoCall

\* Every thread that has something to do is scheduled again and again: the
\* stabilization thread of a node that serves, a bootstrap that has started.
StabilizationThread(n) ==
    \/ stabilize_loop(n)
    \/ update_successor_notify(n)
    \/ update_successor_set(n)
    \/ update_fingers(n)
    \/ update_fingers_find_peer(n)
    \/ update_fingers_set(n)

BootstrapThread(n) == bootstrap_find_peer(n) \/ bootstrap_notify(n)

FairStabilization ==
    \A n \in Node : WF_vars(StabilizationThread(n)) /\ WF_vars(BootstrapThread(n))

SpecStabilization == InitDistinct /\ [][NextStabilization]_vars /\ FairStabilization

\* Joins, failures and stabilization threads that tick for ever.
NextMaintenance ==
    \/ NextStabilization
    \/ \E n \in Node : crash(n)

SpecMaintenance == InitDistinct /\ [][NextMaintenance]_vars /\ FairStabilization

\* One node is up, a second host is known; no connection is taken yet.
InitDispatch ==
    /\ InitHosts({AddrA, AddrC})
    /\ thread = [t \in Thread |-> ThreadIdle]
    /\ mutex = MutexFree
    /\ codec = CodecIdle
    /\ call = NoConnections

SpecDispatch == InitDispatch /\ [][NextDispatch]_vars

\* Two notifications arrive at a node with any predecessor and successor.
InitNotify ==
    /\ status = [n \in Node |-> "up"]
    /\ storage = [n \in Node |-> EmptyStorage]
    /\ api = [n \in Node |-> ApiIdle]
    /\ stab = [n \in Node |-> StabIdle]
    /\ boot = [n \in Node |-> BootOff]
    /\ hist = <<>>
    /\ requests = 0
    /\ ticks = 0
    /\ crashes = 0
    /\ thread = [t \in Thread |-> ThreadIdle]
    /\ mutex = MutexFree
    /\ codec = CodecIdle
    /\ call \in NotifyCalls
    /\ routing = [n \in Node |-> IF n = ThisNode THEN call.table ELSE fresh_routing(n)]

SpecNotify == InitNotify /\ [][NextNotify]_vars

\* Two requests arrive at a node with any predecessor and successor that
\* holds at most one value, of a key in its range.
InitPut ==
    /\ status = [n \in Node |-> "up"]
    /\ api = [n \in Node |-> ApiIdle]
    /\ stab = [n \in Node |-> StabIdle]
    /\ boot = [n \in Node |-> BootOff]
    /\ hist = <<>>
    /\ requests = 0
    /\ ticks = 0
    /\ crashes = 0
    /\ thread = [t \in Thread |-> ThreadIdle]
    /\ mutex = MutexFree
    /\ codec = CodecIdle
    /\ call \in PutCalls
    /\ call.store \in StoredBefore(call.table)
    /\ routing = [n \in Node |-> IF n = ThisNode THEN call.table ELSE fresh_routing(n)]
    /\ storage = [n \in Node |-> IF n = ThisNode THEN call.store ELSE EmptyStorage]

SpecPut == InitPut /\ [][NextPut]_vars

\* A node with any predecessor and successor, one tick and one api request
\* ahead of it; no reply received yet.
InitReplies ==
    /\ status = [n \in Node |-> IF n = ThisNode THEN "up" ELSE "absent"]
    /\ \E r \in NotifiedTable :
          routing = [n \in Node |-> IF n = ThisNode THEN r ELSE fresh_routing(n)]
    /\ storage = [n \in Node |-> EmptyStorage]
    /\ api = [n \in Node |-> ApiIdle]
    /\ stab = [n \in Node |-> StabIdle]
    /\ boot = [n \in Node |-> BootOff]
    /\ hist = <<>>
    /\ requests = MaxRequests - 1
    /\ ticks = MaxTicks - 1
    /\ crashes = 0
    /\ thread = [t \in Thread |-> ThreadIdle]
    /\ mutex = MutexFree
    /\ codec = CodecIdle
    /\ call = NoReplies

SpecReplies == InitReplies /\ [][NextReplies]_vars

\* Identifier::is_between alone, on any three identifiers.
InitIsBetween ==
    /\ InitRing
    /\ thread = [t \in Thread |-> ThreadIdle]
    /\ mutex = MutexFree
    /\ codec = CodecIdle
    /\ call \in IsBetweenCalls

SpecIsBetween == InitIsBetween /\ [][NextIsBetween]_vars

\* update_fingers alone, with any configured number of fingers.
InitFingers ==
    /\ InitRing
    /\ thread = [t \in Thread |-> ThreadIdle]
    /\ mutex = MutexFree
    /\ codec = CodecIdle
    /\ call \in FingerCalls

SpecFingers == InitFingers /\ [][NextFingers]_vars

\* Routing::closest_peer alone, on any routing table and identifier.
InitClosestPeer ==
    /\ InitRing
    /\ thread = [t \in Thread |-> ThreadIdle]
    /\ mutex = MutexFree
    /\ codec = CodecIdle
    /\ call \in ClosestPeerCalls

SpecClosestPeer == InitClosestPeer /\ [][NextClosestPeer]_vars

\* The receiving side alone: any frame of the bounded set has been read.
InitFrames ==
    /\ InitRing
    /\ thread = [t \in Thread |-> ThreadIdle]
    /\ mutex = MutexFree
    /\ call = NoCall
    /\ \E f \in Frame :
          codec = [CodecIdle EXCEPT !.pc = "received", !.buffer = f, !.size = Len(f)]

NextFrames == codec_parse

SpecFrames == InitFrames /\ [][NextFrames]_vars

\* The inputs of Message::parse: every frame and every input that ends
\* inside a frame, the empty input included.
Input == UNION {{SubSeq(f, 1, k) : k \in 0 .. Len(f)} : f \in Frame}

InitInputs ==
    /\ InitRing
    /\ thread = [t \in Thread |-> ThreadIdle]
    /\ mutex = MutexFree
    /\ call = NoCall
    /\ \E bytes \in Input :
          codec = [CodecIdle EXCEPT !.pc = "received", !.buffer = bytes,
                                    !.size = Len(bytes)]

NextInputs == codec_parse

SpecInputs == InitInputs /\ [][NextInputs]_vars

\* The storage layer alone: joins, failures and api requests.
NextDht ==
    \/ \E n \in Node, k \in RawKey : handle_dht_get(n, k)
    \/ \E n \in Node, ttl \in Ttl, replication \in Replication, k \in RawKey,
          v \in Value : handle_dht_put(n, ttl, replication, k, v)
    \/ \E n \in Node : get_closest_peer(n)
    \/ \E n \in Node : api_find_peer(n)
    \/ \E n \in Node : handle_storage_check(n)
    \/ \E n \in Node : handle_storage_get(n)
    \/ \E n \in Node : handle_storage_put(n)
    \/ \E n \in Node, boot_addr \in Node : bootstrap(n, boot_addr)
    \/ \E n \in Node : bootstrap_find_peer(n)
    \/ \E n \in Node : bootstrap_notify(n)
    \/ \E n \in Node : crash(n)

SpecDht == Init /\ [][NextDht]_vars

\* Every thread of every node: the api and p2p servers, the stabilization
\* thread, joins and failures.  The clients store one value, with the
\* default replication or with two replicas.
NextPeer ==
    \/ \E n \in Node, k \in RawKey : handle_dht_get(n, k)
    \/ \E n \in Node, ttl \in Ttl, replication \in {0, 2}, k \in RawKey,
          v \in {<<8>>} : handle_dht_put(n, ttl, replication, k, v)
    \/ \E n \in Node : get_closest_peer(n)
    \/ \E n \in Node : api_find_peer(n)
    \/ \E n \in Node : handle_storage_check(n)
    \/ \E n \in Node : handle_storage_get(n)
    \/ \E n \in Node : handle_storage_put(n)
    \/ \E n \in Node, boot_addr \in Node : bootstrap(n, boot_addr)
    \/ \E n \in Node : bootstrap_find_peer(n)
    \/ \E n \in Node : bootstrap_notify(n)
    \/ \E n \in Node : stabilize(n)
    \/ \E n \in Node : update_successor_notify(n)
    \/ \E n \in Node : update_successor_set(n)
    \/ \E n \in Node : update_fingers(n)
    \/ \E n \in Node : update_fingers_find_peer(n)
    \/ \E n \in Node : update_fingers_set(n)
    \/ \E n \in Node : crash(n)

SpecPeer == InitDistinct /\ [][NextPeer]_vars

\* The routing layer alone: joins, failures and stabilization ticks.
NextRing ==
    \/ \E n \in Node, boot_addr \in Node : bootstrap(n, boot_addr)
    \/ \E n \in Node : bootstrap_find_peer(n)
    \/ \E n \in Node : bootstrap_notify(n)
    \/ \E n \in Node : stabilize(n)
    \/ \E n \in Node : update_successor_notify(n)
    \/ \E n \in Node : update_successor_set(n)
    \/ \E n \in Node : update_fingers(n)
    \/ \E n \in Node : update_fingers_find_peer(n)
    \/ \E n \in Node : update_fingers_set(n)
    \/ \E n \in Node : crash(n)

SpecRing == Init /\ [][NextRing]_vars

\* ------------------------------------------------------------------ properties

\* The record of the api worker of n after a step: the entry of the log when
\* the handler returned in the step.
ApiAfter(n) ==
    IF api[n].pc # "idle" /\ api'[n].pc = "idle"
    THEN hist'[Len(hist')].req ELSE api'[n]

\* The nodes whose value table holds an entry for the key.
Holders(key) == {t \in Node : key \in DOMAIN storage[t]}

\* C1: at a responsible node the first STORAGE PUT of a key inserts its value
\* and is answered STORAGE PUT SUCCESS, every later one is answered STORAGE
\* FAILURE and leaves the value; no step changes or removes an entry.
C1_WriteOnce ==
    [][ /\ \A t \in Node : \A key \in DOMAIN storage[t] :
             key \in DOMAIN storage'[t] /\ storage'[t][key] = storage[t][key]
        /\ \A n \in Node :
             (/\ api[n].pc = "resp" /\ api[n].op = "put"
              /\ api'[n] # api[n] /\ Reachable(api[n].peer))
             => LET t == api[n].peer
                    key == ApiKey(n)
                IN  IF key \in DOMAIN storage[t]
                    THEN /\ ApiAfter(n).p2p = "StorageFailure"
                         /\ storage' = storage
                    ELSE /\ ApiAfter(n).p2p = "StoragePutSuccess"
                         /\ storage' = [storage EXCEPT ![t] =
                                           (key :> api[n].value) @@ storage[t]]
      ]_vars

\* A second put of a key with another value was answered STORAGE FAILURE.
C1_Witness ==
    \E j \in DOMAIN hist :
        /\ hist[j].req.op = "put" /\ hist[j].req.p2p = "StorageFailure"
        /\ \E t \in Node : \E key \in DOMAIN storage[t] :
              /\ key.raw_key = hist[j].req.key
              /\ key.replication_index = hist[j].req.i
              /\ storage[t][key] # hist[j].req.value

\* C2: a STORAGE GET the node is not responsible for gets no reply; one it is
\* responsible for is answered STORAGE GET SUCCESS with the value stored
\* under exactly Key(k, r), or STORAGE FAILURE when there is none; value
\* tables and routing tables stay as they are.
C2_StorageGet ==
    [][ \A n \in Node :
          (api[n].op = "get" /\ api[n].pc \in {"sent", "resp"}
           /\ api'[n] # api[n] /\ Reachable(api[n].peer))
          => LET t == api[n].peer
                 key == ApiKey(n)
                 after == ApiAfter(n)
             IN  /\ storage' = storage /\ routing' = routing
                 /\ IF api[n].pc = "sent"
                    THEN IF responsible_for(routing[t], key_identifier(key))
                         THEN after.pc = "resp" /\ after.p2p = api[n].p2p
                         ELSE after.pc = "idle" /\ after.p2p = "dropped"
                              /\ after.res = "error"
                    ELSE IF key \in DOMAIN storage[t]
                         THEN /\ after.p2p = "StorageGetSuccess"
                              /\ after.res = "DhtSuccess"
                              /\ after.resv = storage[t][key]
                         ELSE after.p2p = "StorageFailure"
      ]_vars

\* A get missed index 0 at a responsible node and found the value under a
\* later index of the same raw key.
C2_Witness ==
    \E j \in DOMAIN hist :
        /\ hist[j].req.op = "get" /\ hist[j].req.res = "DhtSuccess"
        /\ hist[j].req.i > 0

\* C3: in every state at most one node's value table holds an entry for a
\* given Key(k, r).
C3_AtMostOneCopy ==
    \A key \in Key : Cardinality(Holders(key)) <= 1

\* C4: a DHT PUT that returned has sent one STORAGE PUT for each of the
\* replication indices 0, 1, ..., replication, in ascending order.
C4_PutAllIndices ==
    \A j \in DOMAIN hist :
        (hist[j].req.op = "put" /\ hist[j].req.res = "ok")
        => LET req == hist[j].req
           IN  /\ Len(req.sent) = req.replication + 1
               /\ \A q \in DOMAIN req.sent :
                     /\ req.sent[q].type = "StoragePut"
                     /\ req.sent[q].replication_index = q - 1
                     /\ req.sent[q].ttl = req.ttl
                     /\ req.sent[q].raw_key = req.key
                     /\ req.sent[q].value = req.value

\* C5: a DHT GET handler that has returned has replied DHT SUCCESS for the
\* first index answered STORAGE GET SUCCESS, or DHT FAILURE after u8::MAX
\* misses; every other outcome of an index was a miss the loop went on from.
C5_GetMissContinues ==
    \A j \in DOMAIN hist :
        hist[j].req.op = "get"
        => LET req == hist[j].req
           IN  /\ \A q \in DOMAIN req.sent : req.sent[q].replication_index = q - 1
               /\ \/ req.res = "DhtSuccess" /\ req.p2p = "StorageGetSuccess"
                  \/ req.res = "DhtFailure" /\ Len(req.sent) = U8MAX

\* No node has joined the first one.
SingleNode == \A n \in Node \ {AddrA} : boot[n].pc = "off"

\* C6: on a single-node ring a DHT PUT with replication 0 followed by a DHT
\* GET of the key on the same node ends with DHT SUCCESS and the value, the
\* node holding it under Key(k, 0).
C6_SingleNodePutGet ==
    SingleNode =>
    \A i \in DOMAIN hist, j \in DOMAIN hist :
        (/\ hist[i].req.op = "put" /\ hist[i].req.replication = 0
         /\ hist[j].req.op = "get" /\ hist[j].req.key = hist[i].req.key
         /\ hist[j].req.started >= i)
        => /\ hist[j].req.res = "DhtSuccess"
           /\ hist[j].req.resv = hist[i].req.value
           /\ [raw_key |-> hist[i].req.key, replication_index |-> 0]
                 \in DOMAIN storage[AddrA]

\* C7: once a DHT PUT with replication 2 has returned, a DHT GET of the key
\* returns DHT SUCCESS with the value although the node responsible for index
\* 0 is unreachable, when a reachable responsible node holds index 1 or 2.
C7_GetFallback ==
    [][ \A n \in Node :
          (/\ api[n].op = "get" /\ api[n].pc # "idle" /\ api'[n].pc = "idle"
           /\ \E h \in Node :
                 /\ status[h] = "crashed"
                 /\ responsible_for(routing[h], key_identifier(
                        [raw_key |-> api[n].key, replication_index |-> 0]))
           /\ \E i \in DOMAIN hist :
                 /\ hist[i].req.op = "put" /\ hist[i].req.replication = 2
                 /\ hist[i].req.key = api[n].key /\ hist[i].req.res = "ok"
                 /\ api[n].started >= i
                 /\ \E t \in Node, r \in 1 .. 2 :
                       LET key == [raw_key |-> api[n].key, replication_index |-> r]
                       IN  /\ Reachable(t) /\ key \in DOMAIN storage[t]
                           /\ storage[t][key] = hist[i].req.value
                           /\ responsible_for(routing[t], key_identifier(key)))
          => ApiAfter(n).res = "DhtSuccess"
      ]_vars

\* Both nodes serve and each has finished a stabilization tick.
TwoNodesStabilized ==
    /\ status[AddrA] = "up" /\ status[AddrB] = "up"
    /\ stab[AddrA].pc = "idle" /\ stab[AddrA].res # "none"
    /\ stab[AddrB].pc = "idle" /\ stab[AddrB].res # "none"

\* C8: in the ring of 127.0.0.1:9000 and 127.0.0.1:9100, after stabilization,
\* every identifier is in the arc of exactly one of the two nodes, a DHT PUT
\* on A leaves the indices in the arc of B in the value table of B, and a
\* following DHT GET on A returns DHT SUCCESS with the value.
C8_TwoNodeRing ==
    TwoNodesStabilized =>
    /\ \A id \in Identifier :
          Cardinality({n \in {AddrA, AddrB} : responsible_for(routing[n], id)}) = 1
    /\ \A i \in DOMAIN hist :
          (hist[i].node = AddrA /\ hist[i].req.op = "put")
          => /\ \A r \in 0 .. hist[i].req.replication :
                   LET key == [raw_key |-> hist[i].req.key, replication_index |-> r]
                   IN  responsible_for(routing[AddrB], key_identifier(key))
                       => key \in DOMAIN storage[AddrB]
             /\ \A j \in DOMAIN hist :
                   (/\ hist[j].node = AddrA /\ hist[j].req.op = "get"
                    /\ hist[j].req.key = hist[i].req.key
                    /\ hist[j].req.started >= i)
                   => /\ hist[j].req.res = "DhtSuccess"
                      /\ hist[j].req.resv = hist[i].req.value

\* C9: a peer find_peer returns was responsible for the identifier when it
\* answered with its own address.
C9_FoundPeerResponsible ==
    [][ \A n \in Node :
          /\ (api[n].pc = "find" /\ ApiAfter(n).pc = "sent")
             => responsible_for(routing[api[n].peer], key_identifier(ApiKey(n)))
          /\ (boot[n].pc = "find" /\ boot'[n].pc = "notify")
             => responsible_for(routing[boot[n].peer], addr_identifier(n))
          /\ (stab[n].pc = "ffind" /\ stab'[n].pc = "fset")
             => responsible_for(routing[stab[n].peer],
                                finger_identifier(stab[n].current, stab[n].i))
      ]_vars

\* The chain of PEER FOUND replies from peer_addr reaches, within hops
\* rounds, a peer that answers with its own address or does not answer.
RECURSIVE Converges(_, _, _)
Converges(peer_addr, identifier, hops) ==
    IF ~Reachable(peer_addr) THEN TRUE
    ELSE LET reply_addr == handle_peer_find(peer_addr, identifier)
         IN  IF reply_addr = peer_addr THEN TRUE
             ELSE IF hops = 0 THEN FALSE
             ELSE Converges(reply_addr, identifier, hops - 1)

\* C10: in every state find_peer terminates from every seed for every
\* identifier when the contacted peers answer.
C10_FindPeerTerminates ==
    \A seed \in Node, id \in Identifier :
        Reachable(seed) => Converges(seed, id, Cardinality(Node))

\* The nodes that serve or have served.
Started == {n \in Node : status[n] \in {"up", "crashed"}}

\* C11: in every state every identifier is in the arc (predecessor, current]
\* of at least one node.
C11_NoGaps ==
    \A id \in Identifier : \E n \in Started : responsible_for(routing[n], id)

\* C12: a reachable node asked PEER FIND answers with closest_peer of its
\* routing table, its own address when it is responsible, and changes
\* neither a routing table nor a value table.
C12_PeerFind ==
    [][ \A n \in Node :
          /\ (api[n].pc = "find" /\ api'[n] # api[n] /\ Reachable(api[n].peer))
             => LET id == key_identifier(ApiKey(n))
                    r == routing[api[n].peer]
                IN  /\ ApiAfter(n).peer = closest_peer(r, id)
                    /\ responsible_for(r, id) => ApiAfter(n).peer = api[n].peer
                    /\ routing' = routing /\ storage' = storage
          /\ (boot[n].pc = "find" /\ boot'[n] # boot[n] /\ Reachable(boot[n].peer))
             => LET id == addr_identifier(n)
                    r == routing[boot[n].peer]
                IN  /\ boot'[n].peer = closest_peer(r, id)
                    /\ responsible_for(r, id) => boot'[n].peer = boot[n].peer
                    /\ routing' = routing /\ storage' = storage
          /\ (stab[n].pc = "ffind" /\ stab'[n] # stab[n] /\ Reachable(stab[n].peer))
             => LET id == finger_identifier(stab[n].current, stab[n].i)
                    r == routing[stab[n].peer]
                IN  /\ stab'[n].peer = closest_peer(r, id)
                    /\ responsible_for(r, id) => stab'[n].peer = stab[n].peer
                    /\ routing' = routing /\ storage' = storage
      ]_vars

\* A lookup went on from the seed and ended at a responsible peer that
\* answered with its own address.
C12_Witness ==
    \E n \in Node :
        /\ boot[n].pc = "notify" /\ boot[n].successor # boot[n].boot_addr
        /\ responsible_for(routing[boot[n].successor], addr_identifier(n))

\* The notify a step handles: the node notified and the address announced.
NotifyStep(n) ==
    IF boot[n].pc = "notify" /\ boot'[n].pc = "done"
    THEN <<[to |-> boot[n].successor, socket_addr |-> n,
            reply |-> routing'[n].predecessor]>>
    ELSE IF stab[n].pc = "notify" /\ stab'[n].pc = "set"
    THEN <<[to |-> stab[n].successor, socket_addr |-> stab[n].current,
            reply |-> stab'[n].cand]>>
    ELSE <<>>

\* C13: the PREDECESSOR REPLY carries the predecessor the node had before it
\* handled the notify.
C13_ReplyOldPredecessor ==
    [][ \A n \in Node : \A m \in DOMAIN NotifyStep(n) :
          NotifyStep(n)[m].reply = routing[NotifyStep(n)[m].to].predecessor
      ]_vars

\* A notify replaced the predecessor and was answered with the old one.
C13_Witness ==
    \E n \in Node :
        /\ stab[n].pc = "set"
        /\ routing[stab[n].successor].predecessor = stab[n].current
        /\ stab[n].cand # stab[n].current

\* C14: a notify sets the predecessor to p exactly when p is in the arc of
\* the node or the predecessor equals current, sets the successor to p
\* exactly when the successor equals current, and leaves current and the
\* finger table.
C14_NotifyUpdates ==
    [][ \A n \in Node : \A m \in DOMAIN NotifyStep(n) :
          LET t == NotifyStep(n)[m].to
              p == NotifyStep(n)[m].socket_addr
              r == routing[t]
          IN  /\ routing'[t].predecessor =
                    IF \/ is_between(addr_identifier(p),
                                     addr_identifier(r.predecessor),
                                     addr_identifier(r.current))
                       \/ r.predecessor = r.current
                    THEN p ELSE r.predecessor
              /\ routing'[t].successor =
                    IF r.successor = r.current THEN p ELSE r.successor
              /\ routing'[t].current = r.current
              /\ routing'[t].finger_table = r.finger_table
      ]_vars

\* A notify from a peer outside the arc of a node that is not alone left the
\* predecessor of the node.
C14_Witness ==
    \E n \in Node :
        /\ stab[n].pc = "set"
        /\ routing[stab[n].successor].predecessor = stab[n].cand
        /\ stab[n].cand \notin {stab[n].current, stab[n].successor}

\* C15: the first notify a node that is alone gets from another peer sets
\* predecessor and successor to the peer and is answered with the address of
\* the node.
C15_AloneNotify ==
    [][ \A n \in Node : \A m \in DOMAIN NotifyStep(n) :
          LET t == NotifyStep(n)[m].to
              p == NotifyStep(n)[m].socket_addr
          IN  (/\ routing[t].predecessor = t /\ routing[t].successor = t
               /\ p # t)
              => /\ routing'[t].predecessor = p
                 /\ routing'[t].successor = p
                 /\ NotifyStep(n)[m].reply = t
      ]_vars

\* A node joined a node that was alone: each is predecessor and successor of
\* the other.
C15_Witness ==
    \E n \in Node :
        /\ boot[n].pc = "done"
        /\ LET t == routing[n].successor
           IN  /\ t # n /\ routing[n].predecessor = t
               /\ routing[t].predecessor = n /\ routing[t].successor = n

\* C16: bootstrap makes the routing table of n from the peer find_peer ended
\* at, the reply to the one notify sent to it and Fingers copies of n; the
\* successor has n as predecessor when n was in its arc; a failed lookup or
\* notify makes no routing table.
C16_Bootstrap ==
    [][ \A n \in Node :
          /\ (boot[n].pc = "find" /\ boot'[n].pc = "notify")
             => /\ boot'[n].successor = boot[n].peer
                /\ closest_peer(routing[boot[n].peer], addr_identifier(n))
                      = boot[n].peer
          /\ (boot[n].pc = "notify" /\ boot'[n].pc = "done")
             => LET t == boot[n].successor
                IN  /\ routing'[n].current = n
                    /\ routing'[n].successor = t
                    /\ routing'[n].predecessor = routing[t].predecessor
                    /\ routing'[n].finger_table = [i \in 1 .. Fingers |-> n]
                    /\ responsible_for(routing[t], addr_identifier(n))
                          => routing'[t].predecessor = n
                    /\ status'[n] = "up"
          /\ (boot[n].pc \in {"find", "notify"} /\ boot'[n].pc = "failed")
             => /\ routing' = routing
                /\ status'[n] = "off"
      ]_vars

\* A node joined between two nodes of a ring.
C16_Witness ==
    \E n \in Node :
        /\ boot[n].pc = "done" /\ status[n] = "up"
        /\ routing[n].predecessor \notin {n, routing[n].successor}
        /\ routing[routing[n].successor].predecessor = n

\* C17: update_successor writes the candidate only when its identifier lies
\* between current and the snapshot of the successor, both ends excluded.
C17_StrictSuccessorUpdate ==
    [][ \A n \in Node :
          (/\ stab[n].pc = "set" /\ stab'[n].pc = "fingers"
           /\ routing'[n].successor # routing[n].successor)
          => LET cand == addr_identifier(stab[n].cand)
                 cur == addr_identifier(stab[n].current)
                 succ == addr_identifier(stab[n].successor)
             IN  /\ is_between(cand, cur, succ)
                 /\ cand # succ /\ cand # cur
      ]_vars

\* C18: in a tick a failed successor update is followed by the finger
\* refresh and a failed lookup for finger i by the lookups for the fingers
\* after i.
C18_TickContinues ==
    [][ \A n \in Node :
          /\ (stab[n].pc = "notify" /\ stab'[n] # stab[n]
               /\ ~Reachable(stab[n].successor))
             => stab'[n].pc = "fingers"
          /\ (stab[n].pc = "ffind" /\ stab'[n] # stab[n]
               /\ ~Reachable(stab[n].peer) /\ stab[n].i + 1 < Fingers)
             => stab'[n].pc = "ffind" /\ stab'[n].i = stab[n].i + 1
      ]_vars

\* The mutexes a thread holds.
Held(t) == {m \in DOMAIN mutex : mutex[m] = t}

\* C19: no thread holds the routing mutex or the storage mutex while it
\* connects, sends or receives.
C19_NoLockAcrossIO ==
    \A t \in Thread : Step(t) \in NetworkIO => Held(t) = {}

\* The stabilization thread waits for a reply, having taken and released
\* the routing mutex, while a p2p worker holds the routing mutex.
C19_Witness ==
    /\ Step("stabilization") = "receive" /\ thread["stabilization"].pc > 2
    /\ mutex.routing \notin {"free", "stabilization"}

\* C20: a message written and parsed back is the message; the size write_to
\* returns is the number of bytes written and the number in the first two
\* bytes of the frame, which the two bytes of the type code follow.
C20_CodecRoundTrip ==
    codec.pc = "parsed"
    => /\ codec.parsed = Described(codec.msg)
       /\ codec.size = Len(codec.buffer)
       /\ read_u16(codec.buffer, 1) = codec.size
       /\ read_u16(codec.buffer, 3) = TypeCode[codec.msg.type]

\* C21: a frame whose declared size is below 4 or is not the number of bytes
\* available, or whose type code is unknown, parses to an InvalidInput error
\* and to no message.
C21_FramingErrors ==
    (codec.pc = "parsed" /\ codec.msg = <<>>)
    => LET size == read_u16(codec.buffer, 1)
           code == read_u16(codec.buffer, 3)
       IN  (\/ size < 4
            \/ size # Len(codec.buffer)
            \/ \A t \in DOMAIN TypeCode : TypeCode[t] # code)
           => codec.parsed = ParseError("InvalidInput")

\* The length of the frame of a message: header, fixed fields and value.
FrameLen(m) == Message_write_to(Described(m)).size

\* C22: sending a message whose frame would be longer than 64000 bytes
\* fails, and every frame sent is at most 64000 bytes long with a size
\* field that is its length.
C22_SizeLimit ==
    /\ codec.pc = "failed" => FrameLen(codec.msg) > MAX_MESSAGE_SIZE
    /\ (codec.pc \in {"written", "parsed"} /\ codec.msg # <<>>)
       => /\ FrameLen(codec.msg) <= MAX_MESSAGE_SIZE
          /\ Len(codec.buffer) <= MAX_MESSAGE_SIZE
          /\ read_u16(codec.buffer, 1) = Len(codec.buffer)
          /\ codec.size = Len(codec.buffer)

\* C22: a message whose frame is longer than a u16 can tell has failed to
\* send.
C22_Witness == codec.pc = "failed" /\ FrameLen(codec.msg) > U16

\* The identifiers met when walking the ring from a, a itself left out, up
\* to and including b.
Arc(a, b) == {(a + k) % RingSize : k \in 1 .. ((b - a) % RingSize)}

RECURSIVE BitLength(_)
BitLength(x) == IF x = 0 THEN 0 ELSE 1 + BitLength(x \div 2)

\* C25: closest_peer returns current for an identifier in (predecessor,
\* current], else successor for one in (current, successor], else the finger
\* at the number z of leading zeros of the offset if z < F, else successor;
\* the result is an entry of the table.
C25_ClosestPeer ==
    call.fn = "closest_peer"
    => \A i \in 1 .. Len(call.done) :
         LET r == call.done[i].args[1]
             id == call.done[i].args[2]
             result == call.done[i].result
             cur == addr_identifier(r.current)
             z == IdBits - BitLength((id - cur) % RingSize)
         IN  /\ result = IF id \in Arc(addr_identifier(r.predecessor), cur)
                         THEN r.current
                         ELSE IF id \in Arc(cur, addr_identifier(r.successor))
                         THEN r.successor
                         ELSE IF z < Fingers THEN r.finger_table[z + 1]
                         ELSE r.successor
             /\ result \in {r.current, r.successor}
                           \cup {r.finger_table[j] : j \in 1 .. Fingers}

\* C25: a call has returned a finger that is neither current nor successor.
C25_Witness ==
    /\ call.fn = "closest_peer"
    /\ \E i \in 1 .. Len(call.done) :
         LET r == call.done[i].args[1]
         IN  /\ call.done[i].result \notin {r.current, r.successor}
             /\ call.done[i].result = r.finger_table[Fingers]

\* The nodes that serve, and the next and the previous of them on the ring.
Up == {n \in Node : status[n] = "up"}

RingNext(n) ==
    IF Up = {n} THEN n
    ELSE CHOOSE m \in Up \ {n} :
           \A o \in Up \ {n} :
              sub(addr_identifier(m), addr_identifier(n))
                <= sub(addr_identifier(o), addr_identifier(n))

RingPrev(n) ==
    IF Up = {n} THEN n
    ELSE CHOOSE m \in Up \ {n} :
           \A o \in Up \ {n} :
              sub(addr_identifier(n), addr_identifier(m))
                <= sub(addr_identifier(n), addr_identifier(o))

RingCorrect ==
    /\ \A n \in Node : status[n] # "boot"
    /\ \A n \in Up : /\ routing[n].successor = RingNext(n)
                     /\ routing[n].predecessor = RingPrev(n)

\* C26: with distinct identifiers and no failure, after the joins the ticks
\* bring every successor to the next node and every predecessor to the
\* previous node of the ring, and they stay there.
C26_RingStabilizes == <>[]RingCorrect

\* The table and the replies when the requests are handled one after the
\* other in the given order.
RECURSIVE Sequentially(_, _)
Sequentially(r, requests_) ==
    IF requests_ = <<>> THEN [routing |-> r, replies |-> <<>>]
    ELSE LET first == notify_predecessor(r, Head(requests_))
             rest == Sequentially(first.routing, Tail(requests_))
         IN  [routing |-> rest.routing, replies |-> <<first.reply>> \o rest.replies]

NotifyDone ==
    /\ call.fn = "notify_predecessor"
    /\ call.pending = <<>> /\ Len(call.done) = 2
    /\ \A t \in Thread : Step(t) = "idle"

\* C27: two PredecessorNotify requests handled by two workers leave the
\* table and send the replies of one of the two sequential orders.
C27_NotifyAtomic ==
    NotifyDone
    => \E order \in {<<1, 2>>, <<2, 1>>} :
         LET seq == Sequentially(call.table,
                       <<call.done[order[1]].args[1], call.done[order[2]].args[1]>>)
         IN  /\ routing[ThisNode] = seq.routing
             /\ seq.replies = <<call.done[order[1]].result, call.done[order[2]].result>>

\* C27: both workers were in the handler at once, and the second reply is
\* the address the first request had set.
C27_Witness ==
    /\ call.fn = "notify_predecessor" /\ call.pending = <<>> /\ call.done = <<>>
    /\ \E t, u \in Thread :
         /\ Step(t) = "check_predecessor"
         /\ routing[ThisNode].predecessor = thread[t].predecessor_addr
         /\ routing[ThisNode].predecessor # call.table.predecessor
         /\ Step(u) = "lock_routing"
         /\ thread[u].predecessor_addr # thread[t].predecessor_addr

\* A step of the finger refresh of the stabilization thread of n.
RefreshStep(n) ==
    stab[n].pc \in {"fingers", "ffind", "fset"} /\ stab'[n] # stab[n] /\ status'[n] = "up"

\* C28: a refresh whose requests are all answered snapshots current and
\* successor, looks finger i up with
\* find_peer(current.id + 2^(IdBits-1-i) mod 2^IdBits) from the snapshotted
\* successor, stores the peer that answered with itself at index i, keeps the
\* number of fingers and leaves current, predecessor and successor alone.
C28_FingerRefresh ==
    [][\A n \in Node : RefreshStep(n) =>
         LET target == (addr_identifier(routing[n].current)
                           + 2 ^ (IdBits - 1 - stab[n].i)) % (2 ^ IdBits)
             asked == closest_peer(routing[stab[n].peer], target)
         IN  /\ routing'[n].current = routing[n].current
             /\ routing'[n].predecessor = routing[n].predecessor
             /\ routing'[n].successor = routing[n].successor
             /\ Len(routing'[n].finger_table) = Fingers
             /\ stab[n].pc = "fingers" =>
                  /\ stab'[n].pc = "ffind" /\ stab'[n].i = 0
                  /\ stab'[n].current = routing[n].current
                  /\ stab'[n].successor = routing[n].successor
                  /\ stab'[n].peer = routing[n].successor
                  /\ routing'[n] = routing[n]
             /\ stab[n].pc = "ffind" /\ Reachable(stab[n].peer) =>
                  /\ stab[n].current = routing[n].current
                  /\ stab'[n].successor = stab[n].successor /\ stab'[n].i = stab[n].i
                  /\ stab'[n].peer = asked
                  /\ stab'[n].pc = IF asked = stab[n].peer THEN "fset" ELSE "ffind"
                  /\ routing'[n] = routing[n]
             /\ stab[n].pc = "fset" =>
                  /\ routing'[n].finger_table =
                        [j \in 1 .. Fingers |->
                            IF j = stab[n].i + 1 THEN stab[n].peer
                            ELSE routing[n].finger_table[j]]
                  /\ IF stab[n].i + 1 < Fingers
                     THEN /\ stab'[n].pc = "ffind" /\ stab'[n].i = stab[n].i + 1
                          /\ stab'[n].peer = stab[n].successor
                          /\ stab'[n].successor = stab[n].successor
                     ELSE stab'[n].pc = "idle"]_vars

\* C28: the last finger is about to be set to a peer the lookup found beyond
\* the snapshotted successor, the first finger being set already.
C28_Witness ==
    \E n \in Node :
        /\ stab[n].pc = "fset" /\ stab[n].i = Fingers - 1
        /\ stab[n].peer # stab[n].successor
        /\ routing[n].finger_table[1] # routing[n].current

\* The step runs the PredecessorNotify handler of n: a stabilization tick or
\* a join of some node m notifies n.
NotifyHandled(n) ==
    \E m \in Node :
        \/ stab[m].pc = "notify" /\ stab'[m].pc = "set" /\ stab[m].successor = n
        \/ boot[m].pc = "notify" /\ boot'[m].pc = "done" /\ boot[m].successor = n

\* The step is a write of the stabilization tick of n.
TickWrites(n) == stab[n].pc \in {"set", "fset"} /\ stab'[n] # stab[n]

\* The step runs the StoragePut handler of n.
StoragePutHandled(n) ==
    \E m \in Node :
        api[m].pc = "resp" /\ api[m].op = "put" /\ api[m].peer = n /\ api'[m] # api[m]

\* C29: the table of a started node is changed only by its stabilization
\* tick and by its PredecessorNotify handler; the Dht and Storage handlers,
\* PeerFind and the outbound procedures leave every table as it is; current
\* never changes; a value table changes only in its StoragePut handler.
C29_Frame ==
    [][/\ \A n \in Node :
            /\ routing'[n].current = routing[n].current
            /\ routing'[n] # routing[n] =>
                 \/ status[n] = "boot" /\ status'[n] = "up"
                 \/ NotifyHandled(n)
                 \/ TickWrites(n)
            /\ storage'[n] # storage[n] => StoragePutHandled(n)
            /\ stab[n].pc = "ffind" /\ stab'[n] # stab[n] => routing' = routing
            /\ boot[n].pc = "find" /\ boot'[n] # boot[n] => routing' = routing
       /\ api' # api => routing' = routing]_vars

\* C29: values were stored through DhtPut and a tick has set a finger,
\* while the api worker of some node is in a lookup.
C29_Witness ==
    /\ \E n \in Node : storage[n] # EmptyStorage
    /\ \E n \in Node : status[n] = "up" /\ routing[n].finger_table[1] # n
    /\ \E n \in Node : api[n].pc = "find"

\* The message is of a type the server does not accept.
Unexpected(server, m) ==
    IF server = "p2p"
    THEN m.type \notin {"StorageGet", "StoragePut", "PeerFind", "PredecessorNotify"}
    ELSE m.type \notin {"DhtGet", "DhtPut"}

\* C30: a connection with a message of a type the server does not accept
\* ends with the unexpected-message error and without a reply, leaves every
\* routing table and value table as it was, and leaves the node up with its
\* api worker free; the api worker starts a handler only for DhtGet or DhtPut.
C30_UnexpectedMessage ==
    [][/\ call.fn = "handle_connection" /\ call' # call =>
            LET con == call'.done[1]
            IN  Unexpected(con.server, con.msg) =>
                  /\ con.result = "MessageError" /\ con.reply = <<>>
                  /\ <<con.server, con.node>> \in call'.errors
                  /\ routing' = routing /\ storage' = storage
                  /\ status' = status /\ status[con.node] = "up"
                  /\ api' = api /\ (con.server = "api" => api[con.node].pc = "idle")
       /\ \A n \in Node : api[n].pc = "idle" /\ api'[n].pc # "idle" =>
            api'[n].op \in {"get", "put"}]_vars

\* C30: the p2p server of a node has answered a request after it had
\* dropped a connection with an unexpected message, and its api server has
\* dropped a connection with an unexpected message.
C30_Witness ==
    /\ call.fn = "handle_connection" /\ call.done # <<>>
    /\ LET con == call.done[1]
       IN  /\ con.server = "p2p" /\ con.reply # <<>>
           /\ <<"p2p", con.node>> \in call.errors
           /\ <<"api", con.node>> \in call.errors
           /\ api[con.node].pc = "find"

\* The message is not of a type the procedure takes as its reply.
WrongReply(procedure, msg) ==
    CASE procedure = "find_peer" -> msg.type # "PeerFound"
      [] procedure = "notify_predecessor" -> msg.type # "PredecessorReply"
      [] procedure = "put_value" -> msg.type \notin {"StoragePutSuccess", "StorageFailure"}

\* C31: a procedure that receives a well-formed reply of the wrong type
\* returns the error; update_successor returns without set_successor,
\* update_fingers returns without set_finger, handle_dht_put returns the
\* error, and no routing table is written in the step or by the operation
\* that was abandoned.
C31_WrongReply ==
    [][call.fn = "receive" /\ call' # call =>
         LET rep == call'.done[1]
             n == rep.node
         IN  WrongReply(rep.procedure, rep.msg) =>
               /\ ~rep.ok
               /\ routing' = routing
               /\ rep.procedure = "notify_predecessor" =>
                    stab'[n].pc = "fingers" /\ stab'[n].res = "error"
               /\ rep.procedure = "find_peer" /\ stab[n] # stab'[n] =>
                    stab'[n].pc = "idle" /\ stab'[n].res = "error"
               /\ api[n] # api'[n] =>
                    /\ api'[n].pc = "idle"
                    /\ hist'[Len(hist')].req.res = "error"]_vars

\* C31: the lookup of the second finger has ended with a reply of the wrong
\* type after the first finger and the successor had been written.
C31_Witness ==
    /\ call.fn = "receive" /\ call.done # <<>>
    /\ LET rep == call.done[1]
           n == rep.node
       IN  /\ rep.procedure = "find_peer" /\ WrongReply("find_peer", rep.msg)
           /\ stab[n].pc = "idle" /\ stab[n].i = 1 /\ stab[n].res = "error"
           /\ routing[n].successor = stab[n].cand
           /\ routing[n].successor # routing[n].predecessor
           /\ routing[n].finger_table[1] # n

\* A tick of a running node that ended with an error is followed by the
\* start of another tick, unless the node fails.
ErrorTickRetried ==
    \A n \in Node :
        [](status[n] = "up" /\ stab[n].pc = "idle" /\ stab[n].res = "error"
           => <>(status[n] # "up" \/ stab[n].pc = "notify"))

\* C32: the stabilization thread of a running node starts a tick again and
\* again, for ever, whatever errors its earlier ticks met.
C32_TicksRecur ==
    \A n \in Node : []<>(status[n] # "up" \/ stab[n].pc = "notify")

\* The p2p handler of the node owes a reply to the message: a PeerFind, a
\* PredecessorNotify or a storage request for a key of its arc.
ReplyDue(n, m) ==
    \/ m.type \in {"PeerFind", "PredecessorNotify"}
    \/ /\ m.type \in {"StorageGet", "StoragePut"}
       /\ responsible_for(routing[n],
             key_identifier([raw_key |-> m.raw_key,
                             replication_index |-> m.replication_index]))

\* C33: the p2p handler has sent one reply on the connection when a reply
\* is due and none otherwise; a DhtGet that completed was answered with one
\* DhtSuccess or one DhtFailure, a DhtGet or DhtPut that ended with an error
\* and a DhtPut that completed with nothing, and nothing is sent to the api
\* client before the handler ends.
C33_OneReply ==
    /\ call.fn = "handle_connection" /\ call.done # <<>> /\ call.done[1].server = "p2p" =>
         LET con == call.done[1]
         IN  /\ Len(con.reply) = IF ReplyDue(con.node, con.msg) THEN 1 ELSE 0
             /\ con.reply # <<>> =>
                  con.reply[1].type \in
                    CASE con.msg.type = "PeerFind" -> {"PeerFound"}
                      [] con.msg.type = "PredecessorNotify" -> {"PredecessorReply"}
                      [] con.msg.type = "StorageGet" ->
                           {"StorageGetSuccess", "StorageFailure"}
                      [] con.msg.type = "StoragePut" ->
                           {"StoragePutSuccess", "StorageFailure"}
    /\ \A j \in DOMAIN hist :
         LET req == hist[j].req
         IN  /\ req.op = "get" =>
                  \/ req.res = "DhtSuccess" /\ req.p2p = "StorageGetSuccess"
                  \/ req.res = "DhtFailure" /\ Len(req.sent) = U8MAX
                                            /\ req.p2p = "StorageFailure"
                  \/ req.res = "error" /\ req.p2p # "StorageGetSuccess"
             /\ req.op = "put" => req.res \in {"ok", "error"}
    /\ \A n \in Node : api[n].pc # "idle" => api[n].res = "none"

\* C33: a DhtGet was answered with DhtSuccess after a DhtPut had completed
\* without a reply, and the p2p handler has dropped a storage request for a
\* key outside its arc without a reply.
C33_Witness ==
    /\ call.fn = "handle_connection" /\ call.done # <<>>
    /\ call.done[1].server = "p2p" /\ call.done[1].msg.type = "StorageGet"
    /\ call.done[1].reply = <<>>
    /\ \E i, j \in DOMAIN hist :
         /\ hist[i].req.op = "put" /\ hist[i].req.res = "ok"
         /\ hist[j].req.op = "get" /\ hist[j].req.res = "DhtSuccess"

\* C34: parse reads no more than the declared size, so the bytes after a
\* complete frame do not change its result; an input that ends before the
\* header is complete, the empty input included, or before the declared
\* size is an UnexpectedEof error.
C34_ParseConsumes ==
    (codec.pc = "parsed" /\ codec.msg = <<>>)
    => LET bytes == codec.buffer
       IN  IF Len(bytes) < 4 THEN codec.parsed = ParseError("UnexpectedEof")
           ELSE LET size == read_u16(bytes, 1)
                    code == read_u16(bytes, 3)
                    known == \E t \in DOMAIN TypeCode : TypeCode[t] = code
                IN  /\ size >= 4 /\ known /\ Len(bytes) >= size =>
                         codec.parsed = Message_parse(SubSeq(bytes, 1, size))
                    /\ size >= 4 /\ known /\ Len(bytes) < size =>
                         codec.parsed = ParseError("UnexpectedEof")

\* The ring distance from the predecessor of a table to its current node.
Distance(r) == sub(addr_identifier(r.current), addr_identifier(r.predecessor))

\* A step of the notify handler at a node whose predecessor is another
\* address at that moment does not increase the distance, and leaves the
\* predecessor when the sender is outside the arc.
ArcShrinksStep ==
    [][\A t \in Thread :
         (/\ call.fn = "notify_predecessor"
          /\ routing[ThisNode].predecessor # routing[ThisNode].current
          /\ routing'[ThisNode] # routing[ThisNode] /\ thread'[t] # thread[t])
         => /\ Distance(routing'[ThisNode]) <= Distance(routing[ThisNode])
            /\ ~responsible_for(routing[ThisNode],
                                addr_identifier(thread[t].predecessor_addr))
               => routing'[ThisNode].predecessor = routing[ThisNode].predecessor]_vars

\* C35: at a node that had a predecessor other than itself when the
\* notifications began, no notification increases the distance from the
\* predecessor to the node.
C35_ArcShrinks ==
    [][(call.fn = "notify_predecessor"
        /\ call.table.predecessor # call.table.current)
       => Distance(routing'[ThisNode]) <= Distance(routing[ThisNode])]_vars

\* The ring distance from a node to a successor.
SuccessorDistance(current, successor) ==
    (addr_identifier(successor) - addr_identifier(current) + 2 ^ IdBits) % (2 ^ IdBits)

\* C36: the step of update_successor after the reply leaves the table when
\* the snapshotted successor is the node itself; when it changes the table
\* it changes the successor only, to the address replied, whose distance
\* from the node is positive and at most that of the snapshotted successor.
C36_SuccessorWrite ==
    [][\A n \in Node :
         (stab[n].pc = "set" /\ stab'[n].pc = "fingers")
         => /\ stab[n].successor = stab[n].current => routing'[n] = routing[n]
            /\ routing'[n] # routing[n] =>
                 /\ routing'[n] = [routing[n] EXCEPT !.successor = stab[n].cand]
                 /\ SuccessorDistance(stab[n].current, routing'[n].successor) > 0
                 /\ SuccessorDistance(stab[n].current, routing'[n].successor)
                      <= SuccessorDistance(stab[n].current, stab[n].successor)]_vars

\* C36: a tick has written a closer successor while the tick of another
\* node, which has notified this node, waits for its own write.
C36_Witness ==
    \E n, m \in Node :
        /\ n # m
        /\ stab[n].pc = "fingers" /\ stab[n].res = "none"
        /\ routing[n].successor = stab[n].cand
        /\ stab[n].cand # stab[n].successor
        /\ stab[m].pc = "set" /\ stab[m].successor = n
        /\ routing[n].predecessor = m

\* Both requests have been handled and every worker is idle again.
PutsDone == call.pending = <<>> /\ \A t \in Thread : Step(t) = "idle"

\* The two requests are StoragePut requests for one key, with different
\* values, and the node is responsible for the key.
RacingPuts ==
    /\ call.fn = "handle_storage_put"
    /\ call.calls[1].type = "StoragePut" /\ call.calls[2].type = "StoragePut"
    /\ storage_put_key(call.calls[1]) = storage_put_key(call.calls[2])
    /\ call.calls[1].value # call.calls[2].value
    /\ responsible_for(call.table, key_identifier(storage_put_key(call.calls[1])))

\* One of the two requests was answered StoragePutSuccess, the other
\* StorageFailure, and the table holds the value of the first.
OneStored ==
    /\ Len(call.done) = 2
    /\ \E i, j \in 1 .. 2 :
         /\ i # j
         /\ call.done[i].result = "StoragePutSuccess"
         /\ call.done[j].result = "StorageFailure"
         /\ call.done[i].args[1] # call.done[j].args[1]
         /\ LET key == storage_put_key(call.done[i].args[1])
            IN  /\ key \in DOMAIN storage[ThisNode]
                /\ storage[ThisNode][key] = call.done[i].args[1].value

\* C37 as stated: two StoragePut requests for one key with different values,
\* handled by two workers of a responsible node, end with one
\* StoragePutSuccess, one StorageFailure and the value of the successful one
\* in the table.
C37_OnePutSucceeds == (PutsDone /\ RacingPuts) => OneStored

\* C37: the same for a key that the node does not hold when the requests
\* arrive.
C37_OneFreshPutSucceeds ==
    (PutsDone /\ RacingPuts /\ storage_put_key(call.calls[1]) \notin DOMAIN call.store)
    => OneStored

\* C37: the request that arrived second was answered StoragePutSuccess, its
\* worker having overtaken the worker of the first.
C37_Witness ==
    /\ PutsDone /\ RacingPuts /\ OneStored
    /\ call.done[2].result = "StoragePutSuccess"
    /\ call.done[2].args[1] = call.calls[1]

\* C38: every key of the value table of a node lies in the node's range
\* (predecessor, current].
C38_KeysInRange ==
    \A n \in Node : \A key \in DOMAIN storage[n] :
        responsible_for(routing[n], key_identifier(key))

\* No other node serves or has started to join.
Alone(n) == \A m \in Node \ {n} : status[m] # "up" /\ boot[m].pc = "off"

\* The routing table of a node that has started a new ring.
FreshRing(n) ==
    /\ routing[n].predecessor = n /\ routing[n].successor = n
    /\ fingers(routing[n]) = Fingers
    /\ \A i \in 1 .. Fingers : routing[n].finger_table[i] = n

\* C39: the node that starts the ring has predecessor = successor = current
\* and F fingers equal to current; no step of a tick of such a node, alone,
\* changes its routing table or fails, and the tick comes to its end.
C39_AloneTick ==
    /\ status[AddrA] = "up" /\ FreshRing(AddrA)
    /\ [][\A n \in Node :
            (status[n] = "up" /\ Alone(n) /\ FreshRing(n) /\ stab'[n] # stab[n])
            => routing'[n] = routing[n] /\ stab'[n].res # "error"]_vars
    /\ \A n \in Node :
         (status[n] = "up" /\ Alone(n) /\ FreshRing(n) /\ stab[n].pc # "idle")
         ~> (stab[n].pc = "idle" \/ ~Alone(n))

\* C39: a node that is alone has finished a tick with its table as it was
\* when the ring started.
C39_Witness ==
    \E n \in Node :
        /\ status[n] = "up" /\ Alone(n) /\ FreshRing(n)
        /\ stab[n].pc = "idle" /\ stab[n].res = "ok" /\ stab[n].i = Fingers - 1

\* C40: for every configured number of fingers, update_fingers does not
\* panic, and the bit index of every finger identifier it has computed is
\* within the width of the identifier.
C40_BitIndex ==
    call.fn = "update_fingers"
    => /\ call.result # "panic"
       /\ call.i > 0 => call.index \in 0 .. (IdBits - 1)

====
